---- MODULE Spec2Model ----
(***************************************************************************)
(* Run lifecycle of the simulations platform: parameter validation, path  *)
(* resolution, launch, completion polling and the record store, as        *)
(* implemented by routes/dashboard.py, routes/experiment_details.py,      *)
(* pages/*.py and floodns/external/simulation/main.py.                    *)
(***************************************************************************)
EXTENDS Integers, Sequences, FiniteSets, TLC

VARIABLES
    records,    \* the experiments collection: id -> document
    nextId,     \* next ObjectId handed out by insert_one
    clock,      \* datetime.now(), as a logical clock
    cwd,        \* working directory of the serving process
    dirs,       \* directories that exist on disk (absolute paths)
    sentinel,   \* run_finished.txt files: directory -> content
    artifacts,  \* config.properties files: directory -> content
    launched,   \* simulator processes spawned so far
    lastOp,     \* the operation that produced the current state
    fnIn,       \* argument of the pure function under test
    fnOut,      \* its result
    analysed    \* what the bandwidth analysis page has done so far

vars == <<records, nextId, clock, cwd, dirs, sentinel, artifacts, launched,
          lastOp, fnIn, fnOut, analysed>>

lifecycleVars == <<records, nextId, clock, dirs, sentinel, artifacts,
                   launched, lastOp>>

pureVars == <<cwd, fnIn, fnOut, analysed>>

-----------------------------------------------------------------------------
(* Bounds *)

MaxRecords == 2
MaxClock == 3
MaxLen == 4
NumCores == 2
NumRoutings == 2
NumSeeds == 2
NumModels == 2

-----------------------------------------------------------------------------
(* Python values *)

None == "None"

\* int(s) for the decimal strings that occur; any other string raises ValueError
IsNumeric(s) ==
    s \in {"0", "1", "2", "3", "4", "5", "6", "7", "8", "16", "42", "200",
           "404", "1234"}

IntOf(s) ==
    CASE s = "0" -> 0 [] s = "1" -> 1 [] s = "2" -> 2 [] s = "3" -> 3
      [] s = "4" -> 4 [] s = "5" -> 5 [] s = "6" -> 6 [] s = "7" -> 7
      [] s = "8" -> 8 [] s = "16" -> 16 [] s = "42" -> 42 [] s = "200" -> 200
      [] s = "404" -> 404 [] s = "1234" -> 1234

\* the elements of a sequence
Range(s) == {s[i] : i \in 1..Len(s)}

\* the first k elements of a list
Prefix(s, k) == {s[i] : i \in 1..(IF k < Len(s) THEN k ELSE Len(s))}

-----------------------------------------------------------------------------
(* Parameter domains *)

valid_num_jobs == <<1, 2, 3, 4, 5>>
valid_num_cores == <<0, 1, 4, 8>>
valid_ring_sizes_int == <<2, 4, 8>>
valid_routing_algorithms ==
    <<"ecmp", "ilp_solver", "simulated_annealing", "edge_coloring", "mcvlc">>
valid_seeds == <<0, 42, 200, 404, 1234>>
valid_models == <<"BLOOM", "GPT_3", "LLAMA2_70B">>

\* Routing[routing] succeeds exactly for the member names of the enum
Routing ==
    {"ecmp", "mcvlc", "edge_coloring", "simulated_annealing", "ilp_solver"}

\* ring_size_param in <list of ints, plus "different" when withDifferent>,
\* where ring_size_param = int(ring_size) if ring_size != "different"
RingIn(ring_size, ints, withDifferent) ==
    IF ring_size = "different" THEN withDifferent
    ELSE IntOf(ring_size) \in ints

Valid == "Parameters are valid."
ValueError == "ValueError"

-----------------------------------------------------------------------------
(* validate_simulation_params, routes/dashboard.py *)

validate_simulation_params(num_jobs, num_cores, ring_size, routing, seed, model) ==
    IF ring_size # "different" /\ ~IsNumeric(ring_size) THEN ValueError
    ELSE IF num_jobs \notin Range(valid_num_jobs)
        THEN "Invalid number of jobs. Must be between 1 and 5."
    ELSE IF num_cores \notin Range(valid_num_cores)
        THEN "Invalid number of core failures. Must be 0, 1, 4, or 8."
    ELSE IF ~RingIn(ring_size, Range(valid_ring_sizes_int), TRUE)
            /\ ring_size # "different"
        THEN "Invalid ring size. Must be 2, 4, 8, or 'different'."
    ELSE IF routing \notin Range(valid_routing_algorithms)
        THEN "Invalid routing algorithm."
    ELSE IF seed \notin Range(valid_seeds)
        THEN "Invalid seed. Must be 0, 42, 200, 404, or 1234."
    ELSE IF model \notin Range(valid_models) /\ num_jobs = 1
        THEN "Invalid model. Must be BLOOM, GPT_3, or LLAMA2_70B for a single job."
    ELSE IF num_jobs = 1 /\ model \notin Range(valid_models)
        THEN "Invalid model. Must be BLOOM, GPT_3, or LLAMA2_70B for a single job."
    ELSE IF num_jobs \in {1, 2, 3} /\ ~RingIn(ring_size, {2, 8}, FALSE)
            /\ ring_size # "different"
        THEN "Invalid ring size for 1-3 jobs. Must be 2, 8, or 'different'."
    ELSE IF num_jobs \in {4, 5} /\ ~RingIn(ring_size, {2, 4}, FALSE)
            /\ ring_size # "different"
        THEN "Invalid ring size for 4-5 jobs. Must be 2, 4, or 'different'."
    ELSE Valid

(* validate_simulation_params, routes/experiment_details.py *)

validate_simulation_params_details(num_jobs, num_cores, ring_size, routing, seed, model) ==
    IF ring_size # "different" /\ ~IsNumeric(ring_size) THEN ValueError
    ELSE IF num_jobs \notin Range(valid_num_jobs)
        THEN "Invalid number of jobs. Must be between 1 and 5."
    ELSE IF num_cores \notin Range(valid_num_cores)
        THEN "Invalid number of core failures. Must be 0, 1, 4, or 8."
    ELSE IF ~RingIn(ring_size, Range(valid_ring_sizes_int), TRUE)
        THEN "Invalid ring size. Must be 2, 4, 8, or 'different'."
    ELSE IF num_jobs = 1 /\ ring_size = "different"
        THEN "Invalid ring size for single job. Must be 2, 4, or 8."
    ELSE IF routing \notin Range(valid_routing_algorithms)
        THEN "Invalid routing algorithm."
    ELSE IF seed \notin Range(valid_seeds)
        THEN "Invalid seed. Must be 0, 42, 200, 404, or 1234."
    ELSE IF num_jobs = 1 /\ model \notin Range(valid_models)
        THEN "Invalid model. Must be BLOOM, GPT_3, or LLAMA2_70B for a single job."
    ELSE IF num_jobs \in {1, 2, 3} /\ ~RingIn(ring_size, {2, 8}, TRUE)
        THEN "Invalid ring size for 1-3 jobs. Must be 2, 8, or 'different'."
    ELSE IF num_jobs \in {4, 5} /\ ~RingIn(ring_size, {2, 4}, TRUE)
        THEN "Invalid ring size for 4-5 jobs. Must be 2, 4, or 'different'."
    ELSE Valid

-----------------------------------------------------------------------------
(* Paths: sequences of components; absolute paths start with "/" *)

PROJECT_ROOT == <<"/", "src">>
FLOODNS_ROOT == PROJECT_ROOT \o <<"floodns">>

isabs(p) == p # <<>> /\ p[1] = "/"

\* os.path.join(a, b)
join(a, b) == IF isabs(b) THEN b ELSE a \o b

\* the file the operating system opens for path p in a process running in d
abspath(d, p) == join(d, p)

\* os.path.relpath(p, start), for p below start
relpath(p, start) == SubSeq(p, Len(start) + 1, Len(p))

\* str.startswith on paths, component-wise
startswith(p, prefix) ==
    Len(p) >= Len(prefix) /\ SubSeq(p, 1, Len(prefix)) = prefix

-----------------------------------------------------------------------------
(* run_simulation, routes/dashboard.py: the run directory of a tuple.     *)
(* All arguments are the strings of params.split(",") (model may be None) *)

TypeError == <<"TypeError">>

\* a run_dir field that is None (or missing); "not run_dir" holds for it
NoneDir == <<>>

run_dir_drop_model(num_jobs, num_cores, ring_size, routing, seed, model) ==
    IF IntOf(num_jobs) = 1 THEN
        FLOODNS_ROOT \o
            <<"runs", "seed_" \o seed, "concurrent_jobs_1",
              num_cores \o "_core_failures",
              IF ring_size = "different" THEN "different_ring_size"
              ELSE "ring_size_" \o ToString(IntOf(ring_size)),
              routing>>
    ELSE IF IntOf(num_jobs) > 1 /\ ring_size = "different" THEN
        FLOODNS_ROOT \o
            <<"runs", "seed_" \o seed, "concurrent_jobs_" \o num_jobs,
              num_cores \o "_core_failures", "different_ring_size", routing>>
    ELSE
        FLOODNS_ROOT \o
            <<"runs", "seed_" \o seed, "concurrent_jobs_" \o num_jobs,
              num_cores \o "_core_failures", "ring_size_" \o ring_size,
              routing>>

run_dir(num_jobs, num_cores, ring_size, routing, seed, model) ==
    IF IntOf(num_jobs) = 1 THEN
        IF model = None THEN TypeError
        ELSE FLOODNS_ROOT \o
            <<"runs", "seed_" \o seed, "concurrent_jobs_1",
              num_cores \o "_core_failures",
              IF ring_size = "different" THEN "different_ring_size"
              ELSE "ring_size_" \o ToString(IntOf(ring_size)),
              model, routing>>
    ELSE IF IntOf(num_jobs) > 1 /\ ring_size = "different" THEN
        FLOODNS_ROOT \o
            <<"runs", "seed_" \o seed, "concurrent_jobs_" \o num_jobs,
              num_cores \o "_core_failures", "different_ring_size", routing>>
    ELSE
        FLOODNS_ROOT \o
            <<"runs", "seed_" \o seed, "concurrent_jobs_" \o num_jobs,
              num_cores \o "_core_failures", "ring_size_" \o ring_size,
              routing>>

\* local_run_single_job: the directory created, filled and passed to java
\* (seed, n_core_failures are ints; ring_size is an int or "different")
single_job_run_dir(seed, n_core_failures, ring_size, model, alg) ==
    FLOODNS_ROOT \o
        <<"runs", "seed_" \o ToString(seed), "concurrent_jobs_1",
          ToString(n_core_failures) \o "_core_failures",
          "ring_size_" \o (IF ring_size = "different" THEN "different"
                           ELSE ToString(IntOf(ring_size))),
          model, alg>>

\* create_run_dir: job_dir for several concurrent jobs (ring_size None when
\* the jobs have different ring sizes)
create_run_dir(num_jobs, core_failures, routing, seed, ring_size) ==
    FLOODNS_ROOT \o
        <<"runs", "seed_" \o ToString(seed),
          "concurrent_jobs_" \o ToString(num_jobs),
          ToString(core_failures) \o "_core_failures",
          IF ring_size = None THEN "different_ring_sizes"
          ELSE "ring_size_" \o ToString(IntOf(ring_size)),
          routing>>

-----------------------------------------------------------------------------
(* check_experiment_status: file contents are sequences of characters *)

NoFile == <<"<absent>">>
Unreadable == <<"<unreadable>">>

Whitespace == {" ", "\n", "\t"}

lower_char(c) ==
    CASE c = "Y" -> "y" [] c = "E" -> "e" [] c = "S" -> "s" [] c = "N" -> "n"
      [] c = "O" -> "o" [] OTHER -> c

lower(s) == [i \in 1..Len(s) |-> lower_char(s[i])]

RECURSIVE lstrip(_)
lstrip(s) ==
    IF s # <<>> /\ Head(s) \in Whitespace THEN lstrip(Tail(s)) ELSE s

RECURSIVE rstrip(_)
rstrip(s) ==
    IF s # <<>> /\ s[Len(s)] \in Whitespace
    THEN rstrip(SubSeq(s, 1, Len(s) - 1)) ELSE s

strip(s) == rstrip(lstrip(s))

\* the content of run_finished.txt in directory d of file system fs
read_status(fs, d) == IF d \in DOMAIN fs THEN fs[d] ELSE NoFile

status_is_yes_no_strip(content) == lower(content) = <<"y", "e", "s">>

status_is_yes(content) == lower(strip(content)) = <<"y", "e", "s">>

\* routes/dashboard.py; a relative run_dir is opened relative to wd
check_experiment_status(run_dir_arg, fs, wd) ==
    IF run_dir_arg = NoneDir THEN FALSE
    ELSE LET content == read_status(fs, abspath(wd, run_dir_arg)) IN
         IF content = NoFile THEN FALSE
         ELSE IF content = Unreadable THEN FALSE
         ELSE status_is_yes(content)

\* routes/experiment_details.py; a relative run_dir is below FLOODNS_ROOT
check_experiment_status_details(run_dir_arg, fs, wd) ==
    IF run_dir_arg = NoneDir THEN FALSE
    ELSE LET d == IF ~isabs(run_dir_arg) THEN join(FLOODNS_ROOT, run_dir_arg)
                  ELSE run_dir_arg
             content == read_status(fs, abspath(wd, d)) IN
         IF content = NoFile THEN FALSE
         ELSE IF content = Unreadable THEN FALSE
         ELSE status_is_yes(content)

-----------------------------------------------------------------------------
(* The record store (experiments collection) *)

NoTime == 0
NoError == ""

\* the document of insert_one in create_new_simulation; run_dir and
\* error_message are not set yet
NewDocument(name, params, now) ==
    [simulation_name |-> name, params |-> params, start_time |-> now,
     end_time |-> NoTime, state |-> "Running", run_dir |-> NoneDir,
     error_message |-> NoError]

insert_one(store, id, doc) ==
    [i \in DOMAIN store \cup {id} |-> IF i = id THEN doc ELSE store[i]]

delete_one(store, id) == [i \in DOMAIN store \ {id} |-> store[i]]

\* update_one({"_id": ObjectId(id)}, {"$set": ...}): no match, no change
update_one(store, id, doc) ==
    IF id \in DOMAIN store THEN [store EXCEPT ![id] = doc] ELSE store

\* update_one({"_id": simulation_id}, ...): a str never equals an ObjectId
update_one_raw(store, id, isObjectId, doc) ==
    IF isObjectId THEN update_one(store, id, doc) ELSE store

-----------------------------------------------------------------------------
(* The disk *)

Put(f, k, v) == [x \in DOMAIN f \cup {k} |-> IF x = k THEN v ELSE f[x]]

logs_floodns(d) == d \o <<"logs_floodns">>

No == <<"N", "o", "\n">>
Yes == <<"Y", "e", "s", "\n">>

\* create_config_floodns: the content of config.properties
ConfigOf(routing, core_failures, traffic_pairs_dir) ==
    [routing_strategy |-> routing, num_failed_nodes |-> core_failures,
     job_base_dir_schedule |-> traffic_pairs_dir]

\* create_files(runs_dir, ...): config.properties is rewritten on every call
create_files(w, runs_dir, routing, core_failures, traffic_pairs_dir) ==
    [w EXCEPT
        !.dirs = @ \cup {runs_dir},
        !.artifacts =
            Put(@, runs_dir, ConfigOf(routing, core_failures, traffic_pairs_dir))]

\* create_run_dir_single_job: one directory per member of Routing
RoutingOrder ==
    <<"ecmp", "mcvlc", "edge_coloring", "simulated_annealing", "ilp_solver">>

RECURSIVE create_run_dir_single_job(_, _, _, _, _, _)
create_run_dir_single_job(w, i, core_failures, ring_size, model_name, seed) ==
    IF i > Len(RoutingOrder) THEN w
    ELSE create_run_dir_single_job(
            create_files(
                w,
                single_job_run_dir(seed, core_failures, ring_size, model_name,
                                   RoutingOrder[i]),
                RoutingOrder[i], core_failures,
                FLOODNS_ROOT \o
                    <<"traffic_pairs", "seed_" \o ToString(seed),
                      "concurrent_jobs_1",
                      "ring_size_" \o (IF ring_size = "different"
                                       THEN "different"
                                       ELSE ToString(IntOf(ring_size))),
                      model_name>>),
            i + 1, core_failures, ring_size, model_name, seed)

\* the simulator, started in directory d: it creates its output directory
\* and a run_finished.txt that says "No" until it has finished
SimulatorStarts(w, d) ==
    [w EXCEPT
        !.dirs = @ \cup {logs_floodns(d)},
        !.sentinel = Put(@, logs_floodns(d), No),
        !.proc = d]

\* local_run_single_job: returns a process, or None (proc = NoneDir) when
\* the jar is missing or anything raised
local_run_single_job(w, seed, n_core_failures, ring_size, model, alg, jar, writable) ==
    IF model = None \/ ~writable THEN [w EXCEPT !.proc = NoneDir]
    ELSE LET d == single_job_run_dir(seed, n_core_failures, ring_size, model,
                                     alg)
             w1 == create_run_dir_single_job(
                       [w EXCEPT !.dirs = @ \cup {d}], 1, n_core_failures,
                       ring_size, model, seed)
         IN  IF ~jar THEN [w1 EXCEPT !.proc = NoneDir]
             ELSE SimulatorStarts(w1, d)

\* local_run_multiple_jobs and local_run_multiple_jobs_different_ring_size:
\* generate the artifacts in the directory of create_run_dir, then launch;
\* a missing executable raises LaunchError before spawning
local_run_multiple_jobs(w, seed, n_jobs, ring_size, n_core_failures, alg, jar, writable) ==
    IF ~writable THEN [w EXCEPT !.proc = NoneDir, !.raised = "OSError"]
    ELSE LET d == create_run_dir(n_jobs, n_core_failures, alg, seed, ring_size)
             w1 == create_files(
                       w, d, alg, n_core_failures,
                       FLOODNS_ROOT \o
                           <<"traffic_pairs", "seed_" \o ToString(seed),
                             "concurrent_jobs_" \o ToString(n_jobs),
                             IF ring_size = None THEN "different_ring_sizes"
                             ELSE "ring_size_" \o ToString(IntOf(ring_size))>>)
         IN  IF ~jar THEN [w1 EXCEPT !.proc = NoneDir, !.raised = "LaunchError"]
             ELSE SimulatorStarts(w1, d)

-----------------------------------------------------------------------------
(* run_simulation (routes/dashboard.py and routes/experiment_details.py)  *)

\* the except branch: the filter is the id as it was passed in
OnException(w, id, isObjectId, e) ==
    [w EXCEPT
        !.raised = e,
        !.records =
            IF id \in DOMAIN @
            THEN update_one_raw(@, id, isObjectId,
                    [@[id] EXCEPT !.state = "Error", !.error_message = e])
            ELSE @]

\* the lines after the launch: compute run_dir, create it, prefer its
\* logs_floodns subdirectory when that exists, and persist it
PersistRunDir(w, id, isObjectId, num_jobs, num_cores, ring_size, routing, seed, model, page, writable) ==
    LET rd == run_dir(num_jobs, num_cores, ring_size, routing, seed, model)
    IN  IF rd = TypeError THEN OnException(w, id, isObjectId, "TypeError")
        ELSE IF ~writable THEN OnException(w, id, isObjectId, "OSError")
        ELSE LET final_run_dir ==
                     IF logs_floodns(rd) \in w.dirs THEN logs_floodns(rd)
                     ELSE rd
                 stored ==
                     IF page = "details"
                        /\ startswith(final_run_dir, FLOODNS_ROOT)
                     THEN relpath(final_run_dir, FLOODNS_ROOT)
                     ELSE final_run_dir
             IN  [w EXCEPT
                     !.dirs = @ \cup {rd},
                     !.records =
                         IF id \in DOMAIN @
                         THEN update_one(@, id, [@[id] EXCEPT !.run_dir = stored])
                         ELSE @]

run_simulation(w, id, isObjectId, num_jobs, num_cores, ring_size, routing, seed, model, page, jar, writable) ==
    IF routing \notin Routing THEN OnException(w, id, isObjectId, "KeyError")
    ELSE LET w1 ==
                 IF IntOf(num_jobs) = 1 THEN
                     local_run_single_job(
                         w, IntOf(seed), IntOf(num_cores), ring_size, model,
                         routing, jar, writable)
                 ELSE IF IntOf(num_jobs) > 1 /\ ring_size = "different" THEN
                     local_run_multiple_jobs(
                         w, IntOf(seed), IntOf(num_jobs), None,
                         IntOf(num_cores), routing, jar, writable)
                 ELSE
                     local_run_multiple_jobs(
                         w, IntOf(seed), IntOf(num_jobs), ring_size,
                         IntOf(num_cores), routing, jar, writable)
         IN  IF w1.raised # NoError
             THEN OnException(w1, id, isObjectId, w1.raised)
             ELSE PersistRunDir(w1, id, isObjectId, num_jobs, num_cores,
                                ring_size, routing, seed, model, page, writable)

-----------------------------------------------------------------------------
(* Initial state of the store, the disk and the process *)

NoOp == [kind |-> "init", id |-> 0, raised |-> NoError, jar |-> TRUE]

\* no analysis yet: analyze_run was invoked on no directory (on), no
\* bandwidth_results.statistics or routing_comparison.txt exists (files) and
\* no document has a bandwidth_analysis field (saved)
NoAnalysis == [on |-> {}, files |-> {}, saved |-> <<>>]

LifecycleInit ==
    /\ analysed = NoAnalysis
    /\ records = <<>>
    /\ nextId = 1
    /\ clock = 1
    /\ dirs = {}
    /\ sentinel = <<>>
    /\ artifacts = <<>>
    /\ launched = {}
    /\ lastOp = NoOp

-----------------------------------------------------------------------------
(* Pure functions applied to drawn arguments *)

Pending == [done |-> FALSE]

\* arguments of validate_simulation_params, inside and outside the domains
ValidateInputs ==
    [num_jobs : 0..6,
     num_cores : Range(valid_num_cores) \cup {2},
     ring_size : {"2", "4", "8", "16", "different"},
     routing : Range(valid_routing_algorithms) \cup {"bgp"},
     seed : Range(valid_seeds) \cup {7},
     model : Range(valid_models) \cup {None, "T5"}]

InitValidate ==
    /\ LifecycleInit
    /\ cwd = PROJECT_ROOT
    /\ fnIn \in ValidateInputs
    /\ fnOut = Pending

ApplyValidate ==
    /\ ~fnOut.done
    /\ fnOut' =
         [done |-> TRUE,
          dashboard |-> validate_simulation_params(
              fnIn.num_jobs, fnIn.num_cores, fnIn.ring_size, fnIn.routing,
              fnIn.seed, fnIn.model),
          details |-> validate_simulation_params_details(
              fnIn.num_jobs, fnIn.num_cores, fnIn.ring_size, fnIn.routing,
              fnIn.seed, fnIn.model)]
    /\ UNCHANGED <<lifecycleVars, cwd, fnIn, analysed>>

SpecValidate == InitValidate /\ [][ApplyValidate]_vars

\* the strings a form can submit, accepted by the dashboard's validation
FormTuples ==
    [num_jobs : {ToString(n) : n \in Range(valid_num_jobs)},
     num_cores : {ToString(n) : n \in Prefix(valid_num_cores, NumCores)},
     ring_size : {ToString(n) : n \in Range(valid_ring_sizes_int)}
                    \cup {"different"},
     routing : Prefix(valid_routing_algorithms, NumRoutings),
     seed : {ToString(n) : n \in Prefix(valid_seeds, NumSeeds)},
     model : Prefix(valid_models, NumModels)]

Accepted(t) ==
    validate_simulation_params(
        IntOf(t.num_jobs), IntOf(t.num_cores), t.ring_size, t.routing,
        IntOf(t.seed), t.model) = Valid

ResolveInputs == {t \in FormTuples : Accepted(t)}

RunDirOf(t) ==
    run_dir(t.num_jobs, t.num_cores, t.ring_size, t.routing, t.seed, t.model)

InitResolve ==
    /\ LifecycleInit
    /\ cwd = PROJECT_ROOT
    /\ fnIn \in ResolveInputs
    /\ fnOut = Pending

ApplyResolve ==
    /\ ~fnOut.done
    /\ fnOut' = [done |-> TRUE, val |-> RunDirOf(fnIn)]
    /\ UNCHANGED <<lifecycleVars, cwd, fnIn, analysed>>

SpecResolve == InitResolve /\ [][ApplyResolve]_vars

\* contents of run_finished.txt: every text of at most MaxLen characters
Alphabet == {"y", "Y", "e", "s", "n", " ", "\n"}

Texts == UNION {[1..n -> Alphabet] : n \in 0..MaxLen}

StatusDir == <<"runs", "seed_0">>

StatusInputs ==
    [run_dir : {NoneDir, StatusDir, FLOODNS_ROOT \o StatusDir},
     content : Texts \cup {NoFile, Unreadable},
     other : {NoFile, <<"y", "e", "s">>},
     wd : {PROJECT_ROOT, FLOODNS_ROOT}]

\* the disk of an argument: the file below FLOODNS_ROOT holds content, the
\* one below PROJECT_ROOT holds other
StatusFs(a) ==
    LET below(root, c) ==
            IF c = NoFile THEN <<>>
            ELSE [d \in {root \o StatusDir} |-> c]
    IN  below(FLOODNS_ROOT, a.content) @@ below(PROJECT_ROOT, a.other)

InitStatus ==
    /\ LifecycleInit
    /\ cwd = PROJECT_ROOT
    /\ fnIn \in StatusInputs
    /\ fnOut = Pending

ApplyStatus ==
    /\ ~fnOut.done
    /\ fnOut' =
         [done |-> TRUE,
          dashboard |-> check_experiment_status(
              fnIn.run_dir, StatusFs(fnIn), fnIn.wd),
          details |-> check_experiment_status_details(
              fnIn.run_dir, StatusFs(fnIn), fnIn.wd)]
    /\ UNCHANGED <<lifecycleVars, cwd, fnIn, analysed>>

SpecStatus == InitStatus /\ [][ApplyStatus]_vars

-----------------------------------------------------------------------------
(* Properties of check_experiment_status *)

\* optional whitespace, then y e s in either case, then optional whitespace
IsYesText(c) ==
    \E i \in 0..Len(c) :
        /\ i + 3 <= Len(c)
        /\ \A k \in 1..i : c[k] \in Whitespace
        /\ c[i + 1] \in {"y", "Y"}
        /\ c[i + 2] \in {"e", "E"}
        /\ c[i + 3] \in {"s", "S"}
        /\ \A k \in (i + 4)..Len(c) : c[k] \in Whitespace

\* run_finished.txt exists in directory d, is readable and says yes
SaysYes(fs, d) ==
    /\ d \in DOMAIN fs
    /\ fs[d] # Unreadable
    /\ IsYesText(fs[d])

\* C5: check_experiment_status(run_dir) is true exactly when run_finished.txt
\* exists in run_dir (taken relative to the working directory by the
\* dashboard, relative to FLOODNS_ROOT by the details page) and its content,
\* trimmed and lowercased, is "yes"; a null run_dir, a missing or unreadable
\* file and any other content give false.
Thm_C5 ==
    fnOut.done =>
        /\ fnOut.dashboard \in BOOLEAN /\ fnOut.details \in BOOLEAN
        /\ fnOut.dashboard <=>
               (fnIn.run_dir # NoneDir
                /\ SaysYes(StatusFs(fnIn), join(fnIn.wd, fnIn.run_dir)))
        /\ fnOut.details <=>
               (fnIn.run_dir # NoneDir
                /\ SaysYes(StatusFs(fnIn), join(FLOODNS_ROOT, fnIn.run_dir)))

Witness_C5 ==
    /\ fnOut.done
    /\ fnIn.run_dir = FLOODNS_ROOT \o StatusDir
    /\ fnIn.content = <<"Y", "e", "s", "\n">>
    /\ fnOut.dashboard /\ fnOut.details

-----------------------------------------------------------------------------
(* Properties of validate_simulation_params *)

\* the invariants of a parameter tuple
SatisfiesInvariants(a) ==
    /\ a.num_jobs \in 1..5
    /\ a.num_cores \in {0, 1, 4, 8}
    /\ a.ring_size \in {"2", "4", "8", "different"}
    /\ a.routing \in
          {"ecmp", "mcvlc", "edge_coloring", "simulated_annealing", "ilp_solver"}
    /\ a.seed \in {0, 42, 200, 404, 1234}
    /\ a.num_jobs = 1 => a.model \in {"BLOOM", "GPT_3", "LLAMA2_70B"}
    /\ a.num_jobs > 1 => a.model = None
    /\ a.num_jobs \in {1, 2, 3} => a.ring_size \in {"2", "8", "different"}
    /\ a.num_jobs \in {4, 5} => a.ring_size \in {"2", "4", "different"}

\* C7: validate_simulation_params (either page) accepts a tuple exactly when
\* the tuple satisfies the invariants of the data model.
Cex_C7 ==
    fnOut.done =>
        /\ (fnOut.dashboard = Valid) <=> SatisfiesInvariants(fnIn)
        /\ (fnOut.details = Valid) <=> SatisfiesInvariants(fnIn)

-----------------------------------------------------------------------------
(* Properties of the run directory *)

\* the parameters that appear in the path: the model only for a single job
PathKey(t) ==
    [t EXCEPT !.model = IF IntOf(t.num_jobs) = 1 THEN t.model ELSE None]

\* C9: the run directory is an injective function of the valid tuple: no
\* valid tuple that differs from the resolved one in seed, num_jobs,
\* core_failures, ring_size, model (single job) or routing has the same path.
Thm_C9 ==
    fnOut.done =>
        /\ fnOut.val # TypeError
        /\ \A t \in ResolveInputs :
              RunDirOf(t) = fnOut.val => PathKey(t) = PathKey(fnIn)

Witness_C9 ==
    /\ fnOut.done
    /\ fnIn.num_jobs = "1" /\ fnIn.ring_size = "different"
    /\ fnIn.model = "GPT_3"
    /\ [fnIn EXCEPT !.model = "BLOOM"] \in ResolveInputs
    /\ fnOut.val # RunDirOf([fnIn EXCEPT !.model = "BLOOM"])

-----------------------------------------------------------------------------
(* The operations of the pages *)

\* names typed into the creation forms and into the edit forms
Names == {"exp"}
NewNames == {"exp2"}

\* parameter strings submitted by the forms of routes/dashboard.py and
\* routes/experiment_details.py: "jobs,cores,ring,routing,seed,model"
SubmittedParams ==
    { <<"1", "0", "2", "ecmp", "42", "BLOOM">>,
      <<"1", "0", "different", "ecmp", "42", "BLOOM">>,
      <<"2", "0", "2", "ecmp", "42", "BLOOM">>,
      <<"4", "0", "8", "ecmp", "42", "BLOOM">> }

\* parameter strings submitted by the edit forms
EditedParams ==
    { <<"1", "0", "2", "ecmp", "42", "BLOOM">>,
      <<"1", "0", "different", "ecmp", "42", "BLOOM">>,
      <<"4", "0", "8", "ecmp", "42", "BLOOM">> }

\* parameter strings of the forms of pages/*.py: "jobs,cores,ring,routing,seed"
LegacyParams == { <<"7", "1", "2", "ecmp", "42">> }

World ==
    [records |-> records, dirs |-> dirs, sentinel |-> sentinel,
     artifacts |-> artifacts, proc |-> NoneDir, raised |-> NoError]

\* the processes of the latest launch of each record
Launch(id, w) ==
    {l \in launched : l.id # id}
        \cup (IF w.proc = NoneDir THEN {} ELSE {[id |-> id, dir |-> w.proc]})

Commit(w) ==
    /\ records' = w.records
    /\ dirs' = w.dirs
    /\ sentinel' = w.sentinel
    /\ artifacts' = w.artifacts

\* the operation that was carried out, with what its launch met
Op(kind, id, raised, jar) ==
    [kind |-> kind, id |-> id, raised |-> raised, jar |-> jar]

\* num_jobs, ... , model = params.split(","): ValueError unless six fields;
\* int() of the numeric fields raises ValueError on any other text
Unpacks(params) ==
    /\ Len(params) = 6
    /\ IsNumeric(params[1]) /\ IsNumeric(params[2]) /\ IsNumeric(params[5])

\* the verdict of a page's validation on the fields of params
Verdict(page, params, model) ==
    IF page = "dashboard"
    THEN validate_simulation_params(
             IntOf(params[1]), IntOf(params[2]), params[3], params[4],
             IntOf(params[5]), model)
    ELSE validate_simulation_params_details(
             IntOf(params[1]), IntOf(params[2]), params[3], params[4],
             IntOf(params[5]), model)

\* if int(num_jobs) > 1: model = None
NulledModel(params) == IF IntOf(params[1]) > 1 THEN None ELSE params[6]

\* st.error(message); return: nothing is written
Rejected == UNCHANGED lifecycleVars

\* routes/dashboard.py
create_new_simulation(simulation_name, params, jar, writable) ==
    IF ~Unpacks(params)
       \/ Verdict("dashboard", params, NulledModel(params))
              # Valid
    THEN Rejected
    ELSE
        /\ nextId <= MaxRecords
        /\ clock <= MaxClock
        /\ LET inserted ==
                   [World EXCEPT
                       !.records = insert_one(
                           @, nextId,
                           NewDocument(simulation_name, params, clock))]
               w == run_simulation(
                        inserted, nextId, TRUE, params[1], params[2],
                        params[3], params[4], params[5], NulledModel(params),
                        "dashboard", jar, writable)
           IN  /\ Commit(w)
               /\ launched' = Launch(nextId, w)
               /\ lastOp' = Op("create", nextId, w.raised, jar)
        /\ nextId' = nextId + 1
        /\ clock' = clock + 1

Restarted_keep_run_dir(doc, now) ==
    [doc EXCEPT !.state = "Running", !.start_time = now, !.end_time = NoTime]

\* the update of a re-run, before run_simulation
Restarted(doc, now) ==
    [doc EXCEPT !.state = "Running", !.start_time = now,
                !.end_time = NoTime, !.run_dir = NoneDir]

re_run_simulation(id, jar, writable) ==
    LET params == records[id].params IN
    IF ~Unpacks(params)
       \/ Verdict("dashboard", params, params[6]) # Valid
    THEN Rejected
    ELSE
        /\ clock <= MaxClock
        /\ LET w == run_simulation(
                        [World EXCEPT
                            !.records = update_one(
                                @, id, Restarted(@[id], clock))],
                        id, FALSE, params[1], params[2], params[3], params[4],
                        params[5], params[6], "dashboard", jar, writable)
           IN  /\ Commit(w)
               /\ launched' = Launch(id, w)
               /\ lastOp' = Op("rerun", id, w.raised, jar)
        /\ clock' = clock + 1
        /\ UNCHANGED nextId

Edited(doc, simulation_name, params) ==
    [doc EXCEPT !.simulation_name = simulation_name, !.params = params,
                !.state = "Edited", !.end_time = NoTime]

save_edited_simulation(id, simulation_name, params) ==
    IF ~Unpacks(params)
       \/ Verdict("dashboard", params, NulledModel(params))
              # Valid
    THEN Rejected
    ELSE
        /\ records' =
              update_one(records, id, Edited(records[id], simulation_name, params))
        /\ lastOp' = Op("edit", id, NoError, TRUE)
        /\ UNCHANGED <<nextId, clock, dirs, sentinel, artifacts, launched>>

\* handle_action_change, action "Delete"
delete_experiment(id) ==
    /\ records' = delete_one(records, id)
    /\ launched' = {l \in launched : l.id # id}
    /\ lastOp' = Op("delete", id, NoError, TRUE)
    /\ UNCHANGED <<nextId, clock, dirs, sentinel, artifacts>>

Stopped(doc, now) == [doc EXCEPT !.state = "Finished", !.end_time = now]

stop_experiment(id) ==
    /\ clock <= MaxClock
    /\ records' = update_one(records, id, Stopped(records[id], clock))
    /\ clock' = clock + 1
    /\ lastOp' = Op("stop", id, NoError, TRUE)
    /\ UNCHANGED <<nextId, dirs, sentinel, artifacts, launched>>

\* update_experiment_status(simulation_id, new_state="Finished")
update_experiment_status(store, id, now) ==
    update_one(store, id, [store[id] EXCEPT !.state = "Finished",
                                            !.end_time = now])

\* main, the status poll of a row (automatic and by the check button)
poll_status(id) ==
    /\ records[id].state = "Running"
    /\ LET is_finished ==
               check_experiment_status(records[id].run_dir, sentinel, cwd)
       IN  IF is_finished
           THEN /\ clock <= MaxClock
                /\ records' = update_experiment_status(records, id, clock)
                /\ clock' = clock + 1
                /\ lastOp' = Op("poll", id, NoError, TRUE)
           ELSE UNCHANGED <<records, clock, lastOp>>
    /\ UNCHANGED <<nextId, dirs, sentinel, artifacts, launched>>

\* routes/experiment_details.py
re_run_experiment(id, jar, writable) ==
    LET params == records[id].params IN
    IF Len(params) # 6 THEN Rejected
    ELSE
        /\ clock <= MaxClock
        /\ LET restarted ==
                   [World EXCEPT
                       !.records = update_one(@, id, Restarted(@[id], clock))]
               w == IF ~Unpacks(params)
                    THEN OnException(restarted, id, FALSE, ValueError)
                    ELSE run_simulation(
                             restarted, id, FALSE, params[1], params[2],
                             params[3], params[4], params[5], params[6],
                             "details", jar, writable)
           IN  /\ Commit(w)
               /\ launched' = Launch(id, w)
               /\ lastOp' = Op("rerun_details", id, w.raised, jar)
        /\ clock' = clock + 1
        /\ UNCHANGED nextId

save_edited_experiment(id, simulation_name, params) ==
    IF ~Unpacks(params)
       \/ Verdict("details", params,
                  NulledModel(params)) # Valid
    THEN Rejected
    ELSE
        /\ records' =
              update_one(records, id, Edited(records[id], simulation_name, params))
        /\ lastOp' = Op("edit_details", id, NoError, TRUE)
        /\ UNCHANGED <<nextId, clock, dirs, sentinel, artifacts, launched>>

\* display_page, the check button of a Running experiment
poll_status_details(id) ==
    /\ records[id].state = "Running"
    /\ LET is_finished ==
               check_experiment_status_details(records[id].run_dir, sentinel, cwd)
       IN  IF is_finished
           THEN /\ clock <= MaxClock
                /\ records' = update_experiment_status(records, id, clock)
                /\ clock' = clock + 1
                /\ lastOp' = Op("poll_details", id, NoError, TRUE)
           ELSE UNCHANGED <<records, clock, lastOp>>
    /\ UNCHANGED <<nextId, dirs, sentinel, artifacts, launched>>

\* pages/dashboard.py create_new_simulation and pages/experiment_details.py
\* save_new_experiment: no validation, no launch
legacy_create(simulation_name, params) ==
    /\ nextId <= MaxRecords
    /\ clock <= MaxClock
    /\ records' = insert_one(records, nextId,
                             NewDocument(simulation_name, params, clock))
    /\ nextId' = nextId + 1
    /\ clock' = clock + 1
    /\ lastOp' = Op("legacy_create", nextId, NoError, TRUE)
    /\ UNCHANGED <<dirs, sentinel, artifacts, launched>>

\* pages/experiment_details.py
legacy_save_edited_experiment(id, simulation_name, params) ==
    /\ clock <= MaxClock
    /\ records' = update_one(records, id,
          [records[id] EXCEPT !.simulation_name = simulation_name,
                              !.params = params, !.state = "Updated",
                              !.end_time = clock])
    /\ clock' = clock + 1
    /\ lastOp' = Op("legacy_edit", id, NoError, TRUE)
    /\ UNCHANGED <<nextId, dirs, sentinel, artifacts, launched>>

\* "Re-Running", then at once "Finished"
legacy_re_run_experiment(id) ==
    /\ clock <= MaxClock
    /\ records' = update_one(records, id,
          [records[id] EXCEPT !.state = "Finished", !.start_time = clock,
                              !.end_time = clock])
    /\ clock' = clock + 1
    /\ lastOp' = Op("legacy_rerun", id, NoError, TRUE)
    /\ UNCHANGED <<nextId, dirs, sentinel, artifacts, launched>>

\* the simulator finishes the run it was started for
SimulatorFinishes(l) ==
    /\ logs_floodns(l.dir) \in DOMAIN sentinel
    /\ sentinel[logs_floodns(l.dir)] # Yes
    /\ sentinel' = Put(sentinel, logs_floodns(l.dir), Yes)
    /\ lastOp' = Op("simulator", l.id, NoError, TRUE)
    /\ UNCHANGED <<records, nextId, clock, dirs, artifacts, launched>>

-----------------------------------------------------------------------------
(* The specification of the run lifecycle *)

Init ==
    /\ LifecycleInit
    /\ cwd = PROJECT_ROOT
    /\ fnIn = Pending
    /\ fnOut = Pending

Create ==
    /\ \E name \in Names, params \in SubmittedParams, jar \in BOOLEAN,
       writable \in BOOLEAN :
        create_new_simulation(name, params, jar, writable)
    /\ UNCHANGED pureVars

ReRun ==
    /\ \E id \in DOMAIN records, jar \in BOOLEAN, writable \in BOOLEAN :
        re_run_simulation(id, jar, writable)
    /\ UNCHANGED pureVars

Edit ==
    /\ \E id \in DOMAIN records, name \in NewNames, params \in EditedParams :
        save_edited_simulation(id, name, params)
    /\ UNCHANGED pureVars

Delete ==
    /\ \E id \in DOMAIN records : delete_experiment(id)
    /\ UNCHANGED pureVars

Stop ==
    /\ \E id \in DOMAIN records : stop_experiment(id)
    /\ UNCHANGED pureVars

Poll ==
    /\ \E id \in DOMAIN records : poll_status(id)
    /\ UNCHANGED pureVars

ReRunDetails ==
    /\ \E id \in DOMAIN records, jar \in BOOLEAN, writable \in BOOLEAN :
        re_run_experiment(id, jar, writable)
    /\ UNCHANGED pureVars

EditDetails ==
    /\ \E id \in DOMAIN records, name \in NewNames, params \in EditedParams :
        save_edited_experiment(id, name, params)
    /\ UNCHANGED pureVars

PollDetails ==
    /\ \E id \in DOMAIN records : poll_status_details(id)
    /\ UNCHANGED pureVars

LegacyCreate ==
    /\ \E name \in Names, params \in LegacyParams : legacy_create(name, params)
    /\ UNCHANGED pureVars

LegacyEdit ==
    /\ \E id \in DOMAIN records, name \in NewNames, params \in LegacyParams :
        legacy_save_edited_experiment(id, name, params)
    /\ UNCHANGED pureVars

LegacyReRun ==
    /\ \E id \in DOMAIN records : legacy_re_run_experiment(id)
    /\ UNCHANGED pureVars

Simulator ==
    /\ \E l \in launched : SimulatorFinishes(l)
    /\ UNCHANGED pureVars

Next ==
    \/ Create
    \/ ReRun
    \/ Edit
    \/ Delete
    \/ Stop
    \/ Poll
    \/ ReRunDetails
    \/ EditDetails
    \/ PollDetails
    \/ LegacyCreate
    \/ LegacyEdit
    \/ LegacyReRun
    \/ Simulator

Spec == Init /\ [][Next]_vars

-----------------------------------------------------------------------------
(* Properties of the run lifecycle *)

LaunchKinds == {"create", "rerun", "rerun_details"}
ReRunKinds == {"rerun", "rerun_details"}
PollKinds == {"poll", "poll_details"}

\* the records that exist before and after a step
Kept == DOMAIN records \cap DOMAIN records'

\* the step is operation kind on record id (every operation but a poll that
\* sees no completion advances the clock or replaces lastOp)
StepOf(kinds, id) ==
    /\ lastOp'.kind \in kinds /\ lastOp'.id = id
    /\ (lastOp' # lastOp \/ clock' # clock)

AllowedChanges ==
    { <<"Created", "Running">>, <<"Running", "Finished">>,
      <<"Running", "Error">>, <<"Finished", "Running">>,
      <<"Error", "Running">>, <<"Edited", "Running">> }

\* C1: every change of a record's state is Created->Running,
\* Running->Finished, Running->Error, Finished->Running, Error->Running,
\* Edited->Running or any->Edited, and a re-run is never applied to a record
\* that is Running.
Cex_C1 ==
    [][/\ \A id \in Kept :
            records[id].state # records'[id].state =>
                \/ records'[id].state = "Edited"
                \/ <<records[id].state, records'[id].state>> \in AllowedChanges
       /\ \A id \in Kept :
            StepOf(ReRunKinds, id) => records[id].state # "Running"]_vars

\* C2: after a launch (first run or re-run) in which a step raised, the
\* record is in state Error, has an error_message and a null run_dir.
Cex_C2 ==
    (lastOp.kind \in LaunchKinds /\ lastOp.raised # NoError
        /\ lastOp.id \in DOMAIN records) =>
        /\ records[lastOp.id].state = "Error"
        /\ records[lastOp.id].error_message # NoError
        /\ records[lastOp.id].run_dir = NoneDir

\* C3: after a launch that did not find the simulator executable there is no
\* process for the record, the record is in state Error with a message, and
\* its run_dir is null.
Cex_C3 ==
    (lastOp.kind \in LaunchKinds /\ ~lastOp.jar
        /\ lastOp.id \in DOMAIN records) =>
        /\ \A l \in launched : l.id # lastOp.id
        /\ records[lastOp.id].state = "Error"
        /\ records[lastOp.id].error_message # NoError
        /\ records[lastOp.id].run_dir = NoneDir

\* the completion check of either page says yes for run_dir d
Detected(d) ==
    \/ check_experiment_status(d, sentinel, cwd)
    \/ check_experiment_status_details(d, sentinel, cwd)

\* C4: a record goes from Running to Finished only in a poll step whose
\* completion check returned true for its run_dir, and that step sets the
\* end timestamp.
Cex_C4 ==
    [][\A id \in Kept :
          (records[id].state = "Running" /\ records'[id].state = "Finished")
              => /\ StepOf(PollKinds, id)
                 /\ Detected(records[id].run_dir)
                 /\ records'[id].end_time = clock]_vars

\* the directories in which a poll of either page looks for run_finished.txt
PolledDirs(d) ==
    IF d = NoneDir THEN {}
    ELSE {abspath(cwd, d),
          abspath(cwd, IF isabs(d) THEN d ELSE join(FLOODNS_ROOT, d))}

\* C6: a Running record whose simulator was started has a persisted run_dir
\* in which a poll finds the run_finished.txt that the simulator writes.
Cex_C6 ==
    \A l \in launched :
        (l.id \in DOMAIN records /\ records[l.id].state = "Running") =>
            logs_floodns(l.dir) \in PolledDirs(records[l.id].run_dir)

\* the tuple of a parameter string, as the pages derive it
TupleOf(params) ==
    [num_jobs |-> IntOf(params[1]), num_cores |-> IntOf(params[2]),
     ring_size |-> params[3], routing |-> params[4],
     seed |-> IntOf(params[5]), model |-> NulledModel(params)]

ValidParams(params) == Unpacks(params) /\ SatisfiesInvariants(TupleOf(params))

WriteKinds ==
    {"create", "rerun", "rerun_details", "edit", "edit_details",
     "legacy_create", "legacy_edit", "legacy_rerun"}

\* C8: a create, edit or re-run that inserts or changes a record, writes an
\* artifact or starts the simulator acts on a tuple that satisfies the
\* invariants.
Cex_C8 ==
    [][\A id \in DOMAIN records' :
          (/\ StepOf(WriteKinds, id)
           /\ \/ id \notin DOMAIN records
              \/ records'[id] # records[id]
              \/ artifacts' # artifacts
              \/ launched' # launched)
              => ValidParams(records'[id].params)]_vars

\* C10: no two records hold the same non-null run_dir.
Cex_C10 ==
    \A i, j \in DOMAIN records :
        (i # j /\ records[i].run_dir # NoneDir) =>
            records[i].run_dir # records[j].run_dir

-----------------------------------------------------------------------------
(* Properties of the launch directory *)

\* the directory in which the launcher generates the artifacts of tuple t and
\* which it passes to the simulator
LauncherDirOf(t) ==
    IF IntOf(t.num_jobs) = 1
    THEN single_job_run_dir(IntOf(t.seed), IntOf(t.num_cores), t.ring_size,
                            t.model, t.routing)
    ELSE create_run_dir(IntOf(t.num_jobs), IntOf(t.num_cores), t.routing,
                        IntOf(t.seed),
                        IF t.ring_size = "different" THEN None ELSE t.ring_size)

\* C11: for every valid tuple, ring_size "different" included, the run_dir
\* that run_simulation computes and persists is the directory in which the
\* launcher generated the artifacts and started the simulator.
Cex_C11 ==
    fnOut.done => fnOut.val = LauncherDirOf(fnIn)

-----------------------------------------------------------------------------
(* Properties of the state field *)

States == {"Created", "Running", "Finished", "Edited", "Error"}

\* C13: the state of every record is one of Created, Running, Finished,
\* Edited, Error.
Cex_C13 ==
    \A id \in DOMAIN records : records[id].state \in States

-----------------------------------------------------------------------------
(* Runs and re-runs: creation, re-run, completion *)

NextRuns ==
    \/ Create
    \/ ReRun
    \/ ReRunDetails
    \/ Poll
    \/ Simulator

SpecRuns == Init /\ [][NextRuns]_vars

AllReRunKinds == {"rerun", "rerun_details", "legacy_rerun"}

\* the directories a launch of params persists as run_dir: the computed
\* directory or its logs_floodns, absolute or relative to FLOODNS_ROOT
PersistedBy(params) ==
    LET rd == run_dir(params[1], params[2], params[3], params[4], params[5],
                      params[6])
    IN  {rd, logs_floodns(rd), relpath(rd, FLOODNS_ROOT),
         relpath(logs_floodns(rd), FLOODNS_ROOT)}

\* C14: a re-run that puts a record into Running leaves it with end_time
\* null and start_time refreshed, keeps its params and name, and leaves
\* run_dir null unless the new launch, raising nothing, persisted the
\* directory of its params.
Thm_C14 ==
    [][\A id \in Kept :
          (StepOf(AllReRunKinds, id) /\ records'[id].state = "Running") =>
              /\ records'[id].end_time = NoTime
              /\ records'[id].start_time = clock
              /\ records'[id].params = records[id].params
              /\ records'[id].simulation_name = records[id].simulation_name
              /\ records'[id].run_dir # NoneDir =>
                    /\ lastOp'.raised = NoError
                    /\ records'[id].run_dir \in PersistedBy(records[id].params)
       ]_vars

\* a re-run of a record that had run before failed to launch: the record is
\* Running again, without run_dir and end_time
Witness_C14 ==
    /\ lastOp.kind \in ReRunKinds /\ lastOp.raised # NoError
    /\ lastOp.id \in DOMAIN records
    /\ records[lastOp.id].state = "Running"
    /\ records[lastOp.id].run_dir = NoneDir
    /\ records[lastOp.id].end_time = NoTime
    /\ records[lastOp.id].start_time = clock - 1
    /\ PersistedBy(records[lastOp.id].params) \cap dirs # {}

-----------------------------------------------------------------------------
(* Properties of an edit *)

EditKinds == {"edit", "edit_details", "legacy_edit"}

\* the step is an edit that changed record id
EditOf(id) ==
    /\ lastOp'.kind \in EditKinds /\ lastOp'.id = id
    /\ records'[id] # records[id]

\* C15: an edit that changes a record has a valid tuple, sets state Edited,
\* the new params and name and end_time null, leaves run_dir, start_time and
\* error_message as they were, and launches nothing.
Cex_C15 ==
    [][\A id \in Kept :
          EditOf(id) =>
              /\ ValidParams(records'[id].params)
              /\ records'[id].state = "Edited"
              /\ records'[id].end_time = NoTime
              /\ records'[id].run_dir = records[id].run_dir
              /\ records'[id].start_time = records[id].start_time
              /\ records'[id].error_message = records[id].error_message
              /\ launched' = launched]_vars

-----------------------------------------------------------------------------
(* The bandwidth analysis page, routes/bandwidth_analysis.py *)

StatisticsFile == <<"bandwidth_results.statistics">>
ComparisonFile == <<"routing_comparison.txt">>

\* os.path.exists / os.path.isdir of a directory: makedirs creates the parents
isdir(p) == \E d \in dirs : startswith(d, p)

\* os.listdir(folder), directories only
listdir(folder) ==
    {d[Len(folder) + 1] : d \in {e \in dirs : startswith(e, folder) /\ Len(e) > Len(folder)}}

\* find({"run_dir": {"$exists": True, "$ne": None}, "state": "Finished"})
fetch_experiments_with_run_dir ==
    {id \in DOMAIN records :
        records[id].run_dir # NoneDir /\ records[id].state = "Finished"}

\* the button of the Single Run Analysis tab: analyze_run reads the CSVs of
\* run_dir and writes bandwidth_results.statistics into it (open raises when
\* the directory does not exist); the result is saved to the document
analyze_selected(id) ==
    /\ id \in fetch_experiments_with_run_dir
    /\ LET p == abspath(cwd, records[id].run_dir)
           raised == IF p \in dirs THEN NoError ELSE "FileNotFoundError"
       IN  /\ analysed' =
                [on |-> {p},
                 files |-> analysed.files
                     \cup (IF raised = NoError THEN {p \o StatisticsFile}
                           ELSE {}),
                 saved |->
                     IF raised = NoError
                     THEN Put(analysed.saved, id,
                              [timestamp |-> clock,
                               output_file |->
                                   join(records[id].run_dir, StatisticsFile)])
                     ELSE analysed.saved]
           /\ lastOp' = Op("analyze", id, raised, TRUE)
    /\ UNCHANGED <<records, nextId, clock, dirs, sentinel, artifacts, launched>>

\* glob(FLOODNS_ROOT/runs/seed_*/concurrent_jobs_*/*_core_failures/*): every
\* directory below runs is created by a launcher with names of these forms
all_experiment_folders ==
    {SubSeq(d, 1, Len(FLOODNS_ROOT) + 5) :
        d \in {e \in dirs : /\ startswith(e, FLOODNS_ROOT \o <<"runs">>)
                           /\ Len(e) >= Len(FLOODNS_ROOT) + 5}}

valid_comparison_folders ==
    {f \in all_experiment_folders : Cardinality(listdir(f)) > 1}

\* compare_routing_strategies: analyze_run on the logs_floodns directory of
\* every strategy that has one, then routing_comparison.txt
compare_routing_strategies(experiment_folder, strategies) ==
    LET paths == {p \in {experiment_folder \o <<s, "logs_floodns">> : s \in strategies} : p \in dirs}
    IN  /\ analysed' =
              [analysed EXCEPT
                  !.on = paths,
                  !.files = @ \cup {p \o StatisticsFile : p \in paths}
                              \cup {experiment_folder \o ComparisonFile}]
        /\ lastOp' = Op("compare", 0, NoError, TRUE)
        /\ UNCHANGED <<records, nextId, clock, dirs, sentinel, artifacts, launched>>

\* parameter strings submitted to the dashboard before an analysis: a single
\* job and the same jobs under two routing strategies
AnalysedParams ==
    { <<"1", "0", "2", "ecmp", "42", "BLOOM">>,
      <<"2", "0", "2", "ecmp", "42", "BLOOM">>,
      <<"2", "0", "2", "mcvlc", "42", "BLOOM">> }

Submit ==
    /\ \E params \in AnalysedParams, jar \in BOOLEAN :
        create_new_simulation("exp", params, jar, TRUE)
    /\ UNCHANGED pureVars

AnalyzeSelected ==
    /\ \E id \in DOMAIN records : analyze_selected(id)
    /\ UNCHANGED <<cwd, fnIn, fnOut>>

Compare ==
    /\ \E folder \in valid_comparison_folders :
       \E strategies \in SUBSET listdir(folder) :
          /\ strategies # {}
          /\ compare_routing_strategies(folder, strategies)
    /\ UNCHANGED <<cwd, fnIn, fnOut>>

NextAnalysis ==
    \/ Submit
    \/ Simulator
    \/ Poll
    \/ AnalyzeSelected
    \/ Compare

SpecAnalysis == Init /\ [][NextAnalysis]_vars

\* the records whose run_dir is directory p
Owners(p) ==
    {id \in DOMAIN records :
        /\ records[id].run_dir # NoneDir
        /\ abspath(cwd, records[id].run_dir) = p}

AnalysisKinds == {"analyze", "compare"}

\* C12: whenever the single-run analysis or compare_routing_strategies
\* invokes analyze_run on a directory, every record that owns that directory
\* is Finished.
Cex_C12 ==
    [][(/\ lastOp'.kind \in AnalysisKinds
        /\ (lastOp' # lastOp \/ analysed' # analysed))
        => \A p \in analysed'.on :
              \A id \in Owners(p) : records[id].state = "Finished"]_vars

-----------------------------------------------------------------------------
(* Numbers of the analysis, floodns/external/analysis/analysis_bandwidth.py *)
(* A float is an exact fraction n/d in lowest terms with d > 0; 0/0 is NaN *)
(* and 1/0, -1/0 are the infinities                                        *)

Abs(x) == IF x < 0 THEN -x ELSE x

RECURSIVE GCD(_, _)
GCD(a, b) == IF b = 0 THEN a ELSE GCD(b, a % b)

NaN == [n |-> 0, d |-> 0]
Inf == [n |-> 1, d |-> 0]
NegInf == [n |-> -1, d |-> 0]

Frac(n, d) ==
    IF d = 0 THEN (IF n = 0 THEN NaN ELSE IF n > 0 THEN Inf ELSE NegInf)
    ELSE LET g == GCD(Abs(n), Abs(d))
             s == IF d < 0 THEN -1 ELSE 1
         IN  [n |-> s * (n \div g), d |-> s * (d \div g)]

Num(i) == [n |-> i, d |-> 1]

IsFinite(x) == x.d # 0

\* the least common denominator of two finite fractions
Lcd(x, y) == (x.d \div GCD(x.d, y.d)) * y.d

FAdd(x, y) ==
    LET l == Lcd(x, y)
    IN  Frac(x.n * (l \div x.d) + y.n * (l \div y.d), l)

FSub(x, y) == FAdd(x, [y EXCEPT !.n = -y.n])

\* x * y, cancelling before multiplying
FMul(x, y) ==
    LET g1 == GCD(Abs(x.n), y.d)
        g2 == GCD(Abs(y.n), x.d)
    IN  IF x.n = 0 \/ y.n = 0 THEN Num(0)
        ELSE Frac((x.n \div g1) * (y.n \div g2), (x.d \div g2) * (y.d \div g1))

\* x / y of two finite floats: 0/0 is NaN, x/0 an infinity
FDiv(x, y) ==
    IF y.n = 0 THEN Frac(x.n, 0)
    ELSE FMul(x, IF y.n > 0 THEN [n |-> y.d, d |-> y.n]
                 ELSE [n |-> -y.d, d |-> -y.n])

FLeq(x, y) ==
    LET l == Lcd(x, y)
    IN  x.n * (l \div x.d) <= y.n * (l \div y.d)

FLess(x, y) == FLeq(x, y) /\ x # y

\* floor of a finite fraction
Floor(x) == x.n \div x.d

\* 1e9 and the default flow_precision 1e-9
Giga == 1000000000
\* value / 1e9
Scaled(v) == Frac(v, Giga)
FlowPrecision == Frac(1, Giga)

\* sequences of floats
RECURSIVE FSum(_)
FSum(s) == IF s = <<>> THEN Num(0) ELSE FAdd(Head(s), FSum(Tail(s)))

FMean(s) == FDiv(FSum(s), Num(Len(s)))

RECURSIVE FMin(_)
FMin(s) ==
    IF Len(s) = 1 THEN s[1]
    ELSE LET m == FMin(Tail(s)) IN IF FLeq(s[1], m) THEN s[1] ELSE m

RECURSIVE FMax(_)
FMax(s) ==
    IF Len(s) = 1 THEN s[1]
    ELSE LET m == FMax(Tail(s)) IN IF FLeq(m, s[1]) THEN s[1] ELSE m

RECURSIVE Insert(_, _)
Insert(x, s) ==
    IF s = <<>> THEN <<x>>
    ELSE IF FLeq(x, Head(s)) THEN <<x>> \o s
    ELSE <<Head(s)>> \o Insert(x, Tail(s))

RECURSIVE Sorted(_)
Sorted(s) == IF s = <<>> THEN <<>> ELSE Insert(Head(s), Sorted(Tail(s)))

RECURSIVE SumSq(_, _)
SumSq(s, m) ==
    IF s = <<>> THEN Num(0)
    ELSE FAdd(FMul(FSub(Head(s), m), FSub(Head(s), m)), SumSq(Tail(s), m))

\* the square of Series.std() (ddof = 1): NaN for a single value
variance(s) ==
    IF Len(s) < 2 THEN NaN
    ELSE FDiv(SumSq(s, FMean(s)), Num(Len(s) - 1))

\* np.percentile(s, p), linear interpolation, p given as the fraction pn/pd
percentile(s, pn, pd) ==
    LET v == Sorted(s)
        h == FMul(Num(Len(v) - 1), Frac(pn, pd * 100))
        lo == Floor(h)
    IN  IF lo + 2 > Len(v) THEN v[lo + 1]
        ELSE FAdd(v[lo + 1],
                  FMul(FSub(h, Num(lo)), FSub(v[lo + 2], v[lo + 1])))

-----------------------------------------------------------------------------
(* Data frames: sequences of rows with the columns the analysis computes   *)
(* with (flow_id, connection_id, link_id are the positions; path, the      *)
(* start and end times, flow_list and metadata enter no statistic).  A CSV *)
(* file is absent or holds a sequence of rows                              *)

Absent == [present |-> FALSE, rows |-> <<>>]
File(rows) == [present |-> TRUE, rows |-> rows]

\* pd.read_csv in try/except: a missing file raises FileNotFoundError and an
\* empty one EmptyDataError, and either leaves an empty frame
read_csv(file) == IF ~file.present THEN <<>> ELSE file.rows

\* load_simulation_csv(run_dir): the three frames (the sorts by id and start
\* time keep the rows in the order of the file, which is written in id order)
load_simulation_csv(disk) ==
    [flow |-> read_csv(disk.flow), conn |-> read_csv(disk.conn),
     link |-> read_csv(disk.link)]

\* df[df['avg_utilization'] > 0]
active_links(df_link) ==
    SelectSeq(df_link, LAMBDA r : FLess(Num(0), r.avg_utilization))

\* df[df['completed'] == 'T']
completed_rows(df_conn) == SelectSeq(df_conn, LAMBDA r : r.completed = "T")

\* the unit conversions: nanoseconds to seconds, raw units to Gbit
convert_flow_keep_duration(df_flow) ==
    [i \in 1..Len(df_flow) |->
        [df_flow[i] EXCEPT !.duration = Num(@), !.amount_sent = Scaled(@)]]

convert_flow(df_flow) ==
    [i \in 1..Len(df_flow) |->
        [df_flow[i] EXCEPT !.duration = Scaled(@), !.amount_sent = Scaled(@)]]

convert_conn(df_conn) ==
    [i \in 1..Len(df_conn) |->
        [df_conn[i] EXCEPT !.duration = Scaled(@), !.amount_sent = Scaled(@),
                           !.total_size = Scaled(@)]]

preprocess_data_keep_incomplete(df, filter_inactive, completed_only) ==
    [flow |-> convert_flow(df.flow),
     conn |-> convert_conn(df.conn),
     link |->
        IF filter_inactive
           /\ \E i \in 1..Len(df.link) : df.link[i].avg_utilization = Num(0)
        THEN active_links(df.link)
        ELSE df.link]

preprocess_data(df, filter_inactive, completed_only) ==
    [flow |-> convert_flow(df.flow),
     conn |->
        convert_conn(
            IF completed_only
               /\ Len(df.conn) - Len(completed_rows(df.conn)) > 0
            THEN completed_rows(df.conn)
            ELSE df.conn),
     link |->
        IF filter_inactive
           /\ \E i \in 1..Len(df.link) : df.link[i].avg_utilization = Num(0)
        THEN active_links(df.link)
        ELSE df.link]

-----------------------------------------------------------------------------
(* Statistics: a report maps keys to values; a key is the sequence of its  *)
(* segments ("flow_count" is <<"flow_", "count">>), so that                *)
(* str.startswith is startswith on the segments                            *)

IntVal(i) == [type |-> "int", val |-> i]
FloatVal(x) == [type |-> "float", val |-> x]
BoolVal(b) == [type |-> "bool", val |-> b]
\* the float that is the square root of x
SqrtVal(x) == [type |-> "float_sqrt", val |-> x]

EmptyDict == [k \in {} |-> IntVal(0)]

\* a.update(b)
update(a, b) == b @@ a

\* (df['amount_sent'] / df['duration']).replace([inf, -inf], nan).dropna()
RECURSIVE throughputs_of(_)
throughputs_of(df) ==
    IF df = <<>> THEN <<>>
    ELSE LET t == FDiv(Head(df).amount_sent, Head(df).duration)
         IN  (IF IsFinite(t) THEN <<t>> ELSE <<>>) \o throughputs_of(Tail(df))

\* the percentiles [0.1, 1, 50, 99, 99.9] under the keys f'{stem}{p}th'
percentile_dict(prefix, stem, values) ==
    (<<prefix, stem \o "0.1th">> :> FloatVal(percentile(values, 1, 10)))
    @@ (<<prefix, stem \o "1th">> :> FloatVal(percentile(values, 1, 1)))
    @@ (<<prefix, stem \o "50th">> :> FloatVal(percentile(values, 50, 1)))
    @@ (<<prefix, stem \o "99th">> :> FloatVal(percentile(values, 99, 1)))
    @@ (<<prefix, stem \o "99.9th">> :> FloatVal(percentile(values, 999, 10)))

nunique(df, column) == Cardinality({df[i][column] : i \in 1..Len(df)})

calc_flow_stats(df_flow) ==
    IF df_flow = <<>> THEN EmptyDict
    ELSE LET throughputs == throughputs_of(df_flow) IN
         IF throughputs = <<>> THEN EmptyDict
         ELSE update(
                (<<"flow_", "count">> :> IntVal(Len(df_flow)))
                @@ (<<"flow_", "total_bandwidth">> :> FloatVal(FSum(throughputs)))
                @@ (<<"flow_", "throughput_mean">> :> FloatVal(FMean(throughputs)))
                @@ (<<"flow_", "throughput_std">> :> SqrtVal(variance(throughputs)))
                @@ (<<"flow_", "throughput_min">> :> FloatVal(FMin(throughputs)))
                @@ (<<"flow_", "throughput_max">> :> FloatVal(FMax(throughputs)))
                @@ (<<"flow_", "unique_sources">> :> IntVal(nunique(df_flow, "source_node_id")))
                @@ (<<"flow_", "unique_targets">> :> IntVal(nunique(df_flow, "dest_node_id"))),
                percentile_dict("flow_", "throughput_", throughputs))

calc_connection_stats(df_conn) ==
    IF df_conn = <<>> THEN EmptyDict
    ELSE LET throughputs == throughputs_of(df_conn)
             completed_count == Len(completed_rows(df_conn))
             completion_rate == Frac(completed_count, Len(df_conn))
         IN
         IF throughputs = <<>> THEN EmptyDict
         ELSE update(
                (<<"connection_", "count">> :> IntVal(Len(df_conn)))
                @@ (<<"connection_", "completed_count">> :> IntVal(completed_count))
                @@ (<<"connection_", "completion_rate">> :> FloatVal(completion_rate))
                @@ (<<"connection_", "total_bandwidth">> :> FloatVal(FSum(throughputs)))
                @@ (<<"connection_", "throughput_mean">> :> FloatVal(FMean(throughputs)))
                @@ (<<"connection_", "throughput_std">> :> SqrtVal(variance(throughputs)))
                @@ (<<"connection_", "throughput_min">> :> FloatVal(FMin(throughputs)))
                @@ (<<"connection_", "throughput_max">> :> FloatVal(FMax(throughputs)))
                @@ (<<"connection_", "unique_sources">> :> IntVal(nunique(df_conn, "source_node_id")))
                @@ (<<"connection_", "unique_targets">> :> IntVal(nunique(df_conn, "dest_node_id"))),
                percentile_dict("conn_", "throughput_", throughputs))

calc_link_stats(df_link) ==
    IF df_link = <<>> THEN EmptyDict
    ELSE LET utilization == [i \in 1..Len(df_link) |-> df_link[i].avg_utilization]
         IN  update(
                (<<"link_", "count">> :> IntVal(Len(df_link)))
                @@ (<<"link_", "active_count">> :> IntVal(Len(active_links(df_link))))
                @@ (<<"link_", "inactive_count">> :>
                        IntVal(Len(SelectSeq(utilization, LAMBDA u : u = Num(0)))))
                @@ (<<"link_", "utilization_mean">> :> FloatVal(FMean(utilization)))
                @@ (<<"link_", "utilization_std">> :> SqrtVal(variance(utilization)))
                @@ (<<"link_", "utilization_min">> :> FloatVal(FMin(utilization)))
                @@ (<<"link_", "utilization_max">> :> FloatVal(FMax(utilization)))
                @@ (<<"link_", "unique_sources">> :> IntVal(nunique(df_link, "source_id")))
                @@ (<<"link_", "unique_targets">> :> IntVal(nunique(df_link, "target_id"))),
                percentile_dict("link_", "utilization_", utilization))

\* 1.0 + 1e-6
CapacityLimit == Frac(1000001, 1000000)

verify_results_all_connections(df_flow, df_conn, df_link, flow_precision) ==
    LET completed_df == df_conn IN
    (IF df_link # <<>>
     THEN <<"link_", "capacity_valid">> :>
            BoolVal(\A i \in 1..Len(df_link) :
                        FLeq(df_link[i].avg_utilization, CapacityLimit))
     ELSE EmptyDict)
    @@ (IF df_flow # <<>>
        THEN <<"flow_", "bandwidth_valid">> :>
               BoolVal(\A i \in 1..Len(df_flow) : df_flow[i].average_bandwidth >= 0)
        ELSE EmptyDict)
    @@ (IF df_conn # <<>>
        THEN <<"connection_", "bandwidth_valid">> :>
               BoolVal(\A i \in 1..Len(df_conn) : df_conn[i].average_bandwidth >= 0)
        ELSE EmptyDict)
    @@ (IF df_conn # <<>> /\ completed_df # <<>>
        THEN <<"connection_", "completion_valid">> :>
               BoolVal(\A i \in 1..Len(completed_df) :
                   LET diff == FSub(completed_df[i].total_size,
                                    completed_df[i].amount_sent)
                   IN  FLeq([diff EXCEPT !.n = Abs(@)], flow_precision))
        ELSE EmptyDict)

verify_results_unguarded(df_flow, df_conn, df_link, flow_precision) ==
    LET completed_df == completed_rows(df_conn) IN
    (IF df_link # <<>>
     THEN <<"link_", "capacity_valid">> :>
            BoolVal(\A i \in 1..Len(df_link) :
                        FLeq(df_link[i].avg_utilization, CapacityLimit))
     ELSE EmptyDict)
    @@ (<<"flow_", "bandwidth_valid">> :>
           BoolVal(\A i \in 1..Len(df_flow) : df_flow[i].average_bandwidth >= 0))
    @@ (IF df_conn # <<>>
        THEN <<"connection_", "bandwidth_valid">> :>
               BoolVal(\A i \in 1..Len(df_conn) : df_conn[i].average_bandwidth >= 0)
        ELSE EmptyDict)
    @@ (IF df_conn # <<>> /\ completed_df # <<>>
        THEN <<"connection_", "completion_valid">> :>
               BoolVal(\A i \in 1..Len(completed_df) :
                   LET diff == FSub(completed_df[i].total_size,
                                    completed_df[i].amount_sent)
                   IN  FLeq([diff EXCEPT !.n = Abs(@)], flow_precision))
        ELSE EmptyDict)

verify_results(df_flow, df_conn, df_link, flow_precision) ==
    LET completed_df == completed_rows(df_conn) IN
    (IF df_link # <<>>
     THEN <<"link_", "capacity_valid">> :>
            BoolVal(\A i \in 1..Len(df_link) :
                        FLeq(df_link[i].avg_utilization, CapacityLimit))
     ELSE EmptyDict)
    @@ (IF df_flow # <<>>
        THEN <<"flow_", "bandwidth_valid">> :>
               BoolVal(\A i \in 1..Len(df_flow) : df_flow[i].average_bandwidth >= 0)
        ELSE EmptyDict)
    @@ (IF df_conn # <<>>
        THEN <<"connection_", "bandwidth_valid">> :>
               BoolVal(\A i \in 1..Len(df_conn) : df_conn[i].average_bandwidth >= 0)
        ELSE EmptyDict)
    @@ (IF df_conn # <<>> /\ completed_df # <<>>
        THEN <<"connection_", "completion_valid">> :>
               BoolVal(\A i \in 1..Len(completed_df) :
                   LET diff == FSub(completed_df[i].total_size,
                                    completed_df[i].amount_sent)
                   IN  FLeq([diff EXCEPT !.n = Abs(@)], flow_precision))
        ELSE EmptyDict)

\* f"{value:.6f}" of a float (rounded to six places, halves upwards; a square
\* root is kept as it is), str(value) of anything else
format_value(v) ==
    IF v.type = "float"
    THEN IF IsFinite(v.val)
         THEN [type |-> "fixed6",
               val |-> Floor(FAdd(FMul(v.val, Num(1000000)), Frac(1, 2)))]
         ELSE [type |-> "fixed6", val |-> "nan"]
    ELSE v

Sections ==
    << <<"Flow Statistics", "flow_">>,
       <<"Connection Statistics", "conn_">>,
       <<"Link Statistics", "link_">>,
       <<"Verification Results", "verif_">> >>

\* the report keys in the order sorted() gives their strings
KeyOrder ==
    << <<"conn_", "throughput_0.1th">>,
       <<"conn_", "throughput_1th">>,
       <<"conn_", "throughput_50th">>,
       <<"conn_", "throughput_99.9th">>,
       <<"conn_", "throughput_99th">>,
       <<"connection_", "completed_count">>,
       <<"connection_", "completion_rate">>,
       <<"connection_", "count">>,
       <<"connection_", "throughput_max">>,
       <<"connection_", "throughput_mean">>,
       <<"connection_", "throughput_min">>,
       <<"connection_", "throughput_std">>,
       <<"connection_", "total_bandwidth">>,
       <<"connection_", "unique_sources">>,
       <<"connection_", "unique_targets">>,
       <<"flow_", "count">>,
       <<"flow_", "throughput_0.1th">>,
       <<"flow_", "throughput_1th">>,
       <<"flow_", "throughput_50th">>,
       <<"flow_", "throughput_99.9th">>,
       <<"flow_", "throughput_99th">>,
       <<"flow_", "throughput_max">>,
       <<"flow_", "throughput_mean">>,
       <<"flow_", "throughput_min">>,
       <<"flow_", "throughput_std">>,
       <<"flow_", "total_bandwidth">>,
       <<"flow_", "unique_sources">>,
       <<"flow_", "unique_targets">>,
       <<"link_", "active_count">>,
       <<"link_", "count">>,
       <<"link_", "inactive_count">>,
       <<"link_", "unique_sources">>,
       <<"link_", "unique_targets">>,
       <<"link_", "utilization_0.1th">>,
       <<"link_", "utilization_1th">>,
       <<"link_", "utilization_50th">>,
       <<"link_", "utilization_99.9th">>,
       <<"link_", "utilization_99th">>,
       <<"link_", "utilization_max">>,
       <<"link_", "utilization_mean">>,
       <<"link_", "utilization_min">>,
       <<"link_", "utilization_std">>,
       <<"verif_", "connection_", "bandwidth_valid">>,
       <<"verif_", "connection_", "completion_valid">>,
       <<"verif_", "flow_", "bandwidth_valid">>,
       <<"verif_", "link_", "capacity_valid">> >>

\* sorted(section_stats.items()): the keys of stats that start with prefix,
\* in sorted order
section_keys(stats, prefix) ==
    SelectSeq(KeyOrder,
              LAMBDA k : k \in DOMAIN stats /\ startswith(k, <<prefix>>))

\* the lines of one section: one line per entry, key and formatted value
section_stats(stats, prefix) ==
    LET keys == section_keys(stats, prefix)
    IN  [i \in 1..Len(keys) |->
            [key |-> keys[i], value |-> format_value(stats[keys[i]])]]

\* write_statistics: the sections that are not empty, in order
statistics_text(stats) ==
    SelectSeq([i \in 1..Len(Sections) |->
                  [title |-> Sections[i][1],
                   lines |-> section_stats(stats, Sections[i][2])]],
              LAMBDA section : section.lines # <<>>)

\* the report of analyze_run: load, preprocess, the three statistics and the
\* verification under the prefix verif_
report_of(disk, filter_inactive, completed_only) ==
    LET df == preprocess_data(load_simulation_csv(disk), filter_inactive,
                              completed_only)
        verification == verify_results(df.flow, df.conn, df.link, FlowPrecision)
    IN  update(
            update(update(update(EmptyDict, calc_flow_stats(df.flow)),
                          calc_connection_stats(df.conn)),
                   calc_link_stats(df.link)),
            [k \in {<<"verif_">> \o j : j \in DOMAIN verification} |->
                verification[Tail(k)]])

analyze_run_cached(disk, filter_inactive, completed_only) ==
    IF ~disk.exists
    THEN [raised |-> "FileNotFoundError", stats |-> EmptyDict, disk |-> disk]
    ELSE IF disk.statistics.present
    THEN [raised |-> NoError, stats |-> EmptyDict, disk |-> disk]
    ELSE LET stats == report_of(disk, filter_inactive, completed_only)
         IN  [raised |-> NoError, stats |-> stats,
              disk |-> [disk EXCEPT !.statistics = File(statistics_text(stats))]]

\* analyze_run(run_dir, ...) on the files of run_dir: the report, the
\* exception raised (open fails when run_dir does not exist) and the disk it
\* leaves
analyze_run(disk, filter_inactive, completed_only) ==
    IF ~disk.exists
    THEN [raised |-> "FileNotFoundError", stats |-> EmptyDict, disk |-> disk]
    ELSE LET stats == report_of(disk, filter_inactive, completed_only)
         IN  [raised |-> NoError, stats |-> stats,
              disk |-> [disk EXCEPT !.statistics = File(statistics_text(stats))]]

-----------------------------------------------------------------------------
(* analyze_run applied twice to a drawn run directory *)

MaxRows == 2

\* rows of flow_info.csv: two flows that ran and one of duration 0 with a
\* negative average bandwidth
FlowRows ==
    << [source_node_id |-> 1, dest_node_id |-> 5, duration |-> 1000,
        amount_sent |-> 5000, average_bandwidth |-> 5],
       [source_node_id |-> 2, dest_node_id |-> 6, duration |-> 1000,
        amount_sent |-> 10000, average_bandwidth |-> 10],
       [source_node_id |-> 3, dest_node_id |-> 7, duration |-> 0,
        amount_sent |-> 15000, average_bandwidth |-> -15] >>

\* rows of connection_info.csv: the two connections of test_bandwidth.py and
\* a completed one of duration 0
ConnRows ==
    << [source_node_id |-> 1, dest_node_id |-> 5, total_size |-> 10000,
        amount_sent |-> 5000, duration |-> 1000, average_bandwidth |-> 5,
        completed |-> "F"],
       [source_node_id |-> 3, dest_node_id |-> 7, total_size |-> 20000,
        amount_sent |-> 15000, duration |-> 1000, average_bandwidth |-> 15,
        completed |-> "T"],
       [source_node_id |-> 4, dest_node_id |-> 8, total_size |-> 20000,
        amount_sent |-> 20000, duration |-> 0, average_bandwidth |-> 0,
        completed |-> "T"] >>

\* rows of link_info.csv: utilization 0.5, 0, -0.5 and 1.5
LinkRows ==
    << [source_id |-> 1, target_id |-> 5, avg_utilization |-> Frac(1, 2)],
       [source_id |-> 2, target_id |-> 6, avg_utilization |-> Num(0)],
       [source_id |-> 3, target_id |-> 7, avg_utilization |-> Frac(-1, 2)],
       [source_id |-> 4, target_id |-> 8, avg_utilization |-> Frac(3, 2)] >>

\* the files of at most MaxRows rows drawn from a catalogue, in its order, and
\* the absent file
Files(catalogue) ==
    {Absent} \cup
    {File([i \in 1..Len(s) |-> catalogue[s[i]]]) :
        s \in {t \in UNION {[1..n -> 1..Len(catalogue)] : n \in 0..MaxRows} :
                  \A i \in 1..(Len(t) - 1) : t[i] <= t[i + 1]}}

\* run directories: one that does not exist, and the existing ones
RunDirs ==
    {[exists |-> FALSE, flow |-> Absent, conn |-> Absent, link |-> Absent,
      statistics |-> Absent]}
    \cup [exists : {TRUE}, flow : Files(FlowRows), conn : Files(ConnRows),
          link : Files(LinkRows), statistics : {Absent}]

NoReport == [raised |-> NoError, stats |-> EmptyDict]

InitAnalyze ==
    /\ LifecycleInit
    /\ cwd = PROJECT_ROOT
    /\ fnIn \in [disk : RunDirs, filter_inactive : BOOLEAN,
                 completed_only : BOOLEAN]
    /\ fnOut = [done |-> FALSE, calls |-> 0, last |-> NoReport,
                previous |-> NoReport]

\* one call of analyze_run on the directory as the call before left it
AnalyzeRun ==
    /\ fnOut.calls < 2
    /\ \E r \in {analyze_run(fnIn.disk, fnIn.filter_inactive,
                            fnIn.completed_only)} :
           /\ fnIn' = [fnIn EXCEPT !.disk = r.disk]
           /\ fnOut' = [done |-> TRUE, calls |-> fnOut.calls + 1,
                        last |-> [raised |-> r.raised, stats |-> r.stats],
                        previous |-> fnOut.last]
    /\ UNCHANGED <<lifecycleVars, cwd, analysed>>

SpecAnalyze == InitAnalyze /\ [][AnalyzeRun]_vars

-----------------------------------------------------------------------------
(* Properties of analyze_run *)

\* the families of statistics, the CSV file of each and the prefixes of its
\* keys
Families == {"flow", "conn", "link"}

KeyPrefixes(family) ==
    CASE family = "flow" -> {<<"flow_">>, <<"verif_", "flow_">>}
      [] family = "conn" ->
            {<<"connection_">>, <<"conn_">>, <<"verif_", "connection_">>}
      [] family = "link" -> {<<"link_">>, <<"verif_", "link_">>}

StatPrefix(family) ==
    CASE family = "flow" -> <<"flow_">>
      [] family = "conn" -> <<"connection_">>
      [] family = "link" -> <<"link_">>

KeysWith(stats, prefix) == {k \in DOMAIN stats : startswith(k, prefix)}

\* no key of the family, statistic or verification, is in the report
NoKeyOf(stats, family) ==
    \A prefix \in KeyPrefixes(family) : KeysWith(stats, prefix) = {}

\* the rows of a family's file that the filters keep
Surviving(a, family) ==
    LET rows == a.disk[family].rows IN
    CASE family = "flow" -> rows
      [] family = "conn" ->
            IF a.completed_only
            THEN SelectSeq(rows, LAMBDA r : r.completed = "T")
            ELSE rows
      [] family = "link" ->
            IF a.filter_inactive
               /\ \E i \in 1..Len(rows) : rows[i].avg_utilization.n = 0
            THEN SelectSeq(rows, LAMBDA r : r.avg_utilization.n > 0)
            ELSE rows

\* the family has a row from which a statistic can be computed
Usable(a, family) ==
    LET rows == Surviving(a, family) IN
    IF family = "link" THEN rows # <<>>
    ELSE \E i \in 1..Len(rows) : rows[i].duration # 0

\* C16: when one of the three CSV files is absent and the other two exist
\* (with rows), analyze_run raises nothing and returns a report without any key of the
\* absent family (flow_*, verif_flow_*, ...) in which the statistics keys of
\* the other two families are present.
Cex_C16 ==
    fnOut.done =>
        \A family \in Families :
            (/\ ~fnIn.disk[family].present
             /\ \A other \in Families \ {family} :
                   fnIn.disk[other].present /\ fnIn.disk[other].rows # <<>>)
            => /\ fnOut.last.raised = NoError
               /\ NoKeyOf(fnOut.last.stats, family)
               /\ \A other \in Families \ {family} :
                     KeysWith(fnOut.last.stats, StatPrefix(other)) # {}

\* C16, amended: when one of the three CSV files is absent or has no row and
\* run_dir exists, analyze_run raises nothing and returns a report without
\* any key of that family; the statistics keys of another family are present
\* exactly when its file has a row that survives the filters and, for flows
\* and connections, such a row of non-zero duration.
Thm_C16 ==
    fnOut.done =>
        \A family \in Families :
            (fnIn.disk.exists /\ fnIn.disk[family].rows = <<>>)
            => /\ fnOut.last.raised = NoError
               /\ NoKeyOf(fnOut.last.stats, family)
               /\ \A other \in Families \ {family} :
                     KeysWith(fnOut.last.stats, StatPrefix(other)) # {}
                        <=> Usable(fnIn, other)

Witness_C16 ==
    /\ fnOut.done
    /\ ~fnIn.disk.flow.present
    /\ Len(fnIn.disk.conn.rows) = 2 /\ Len(fnIn.disk.link.rows) = 2
    /\ Usable(fnIn, "conn") /\ ~Usable(fnIn, "link")
    /\ KeysWith(fnOut.last.stats, <<"connection_">>) # {}
    /\ KeysWith(fnOut.last.stats, <<"link_">>) = {}
    /\ NoKeyOf(fnOut.last.stats, "flow")

\* C17: the second of two calls of analyze_run on a run_dir whose three CSV
\* files did not change, with the same filter flags, returns the report of
\* the first, although the first call wrote bandwidth_results.statistics
\* into run_dir.
Thm_C17 == fnOut.calls = 2 => fnOut.last = fnOut.previous

Witness_C17 ==
    /\ fnOut.calls = 2
    /\ fnIn.disk.statistics.present
    /\ Len(fnIn.disk.statistics.rows) = 4
    /\ fnOut.last.raised = NoError
    /\ KeysWith(fnOut.last.stats, <<"flow_">>) # {}
    /\ fnOut.previous = fnOut.last

\* the connections of a file whose completed flag is 'T'
CompletedIn(rows) == {i \in 1..Len(rows) : rows[i].completed = "T"}

\* C18: with completed_only the connection aggregate is over exactly the
\* connections flagged 'T' (connection_count is their number, and so are the
\* completed count and the distinct sources); without it
\* connection_completion_rate is the number of 'T' connections divided by the
\* number of all connections, 0.5 for one 'T' and one 'F'.
Thm_C18 ==
    (fnOut.done /\ fnOut.last.raised = NoError) =>
        LET rows == fnIn.disk.conn.rows
            stats == fnOut.last.stats
        IN  /\ <<"connection_", "count">> \in DOMAIN stats
                  <=> Usable(fnIn, "conn")
            /\ <<"connection_", "count">> \in DOMAIN stats =>
                  IF fnIn.completed_only
                  THEN /\ stats[<<"connection_", "count">>].val
                            = Cardinality(CompletedIn(rows))
                       /\ stats[<<"connection_", "completed_count">>].val
                            = Cardinality(CompletedIn(rows))
                       /\ stats[<<"connection_", "unique_sources">>].val
                            = Cardinality({rows[i].source_node_id :
                                              i \in CompletedIn(rows)})
                  ELSE /\ stats[<<"connection_", "count">>].val = Len(rows)
                       /\ stats[<<"connection_", "completion_rate">>].val.n
                            * Len(rows)
                            = Cardinality(CompletedIn(rows))
                                * stats[<<"connection_", "completion_rate">>].val.d
            /\ (~fnIn.completed_only /\ Len(rows) = 2
                    /\ Cardinality(CompletedIn(rows)) = 1
                    /\ Usable(fnIn, "conn"))
                  => stats[<<"connection_", "completion_rate">>].val
                        = [n |-> 1, d |-> 2]

Witness_C18 ==
    /\ fnOut.done
    /\ fnIn.completed_only
    /\ fnIn.disk.conn.rows = <<ConnRows[1], ConnRows[2]>>
    /\ fnOut.last.stats[<<"connection_", "count">>].val = 1
    /\ fnOut.last.stats[<<"connection_", "throughput_mean">>].val = Num(15)

\* C19: with filter_inactive, preprocess_data drops exactly the links whose
\* avg_utilization is 0 and keeps every other link; without it, it keeps
\* every link.
Cex_C19 ==
    fnOut.done =>
        preprocess_data(load_simulation_csv(fnIn.disk), fnIn.filter_inactive,
                        fnIn.completed_only).link
            = IF fnIn.filter_inactive
              THEN SelectSeq(fnIn.disk.link.rows,
                             LAMBDA r : r.avg_utilization # Num(0))
              ELSE fnIn.disk.link.rows

\* the raw throughput amount_sent / duration of the rows of non-zero duration
RECURSIVE RawThroughputs(_)
RawThroughputs(rows) ==
    IF rows = <<>> THEN <<>>
    ELSE (IF Head(rows).duration # 0
          THEN <<Frac(Head(rows).amount_sent, Head(rows).duration)>>
          ELSE <<>>) \o RawThroughputs(Tail(rows))

\* the aggregates of a family are those of the rows with a finite throughput
AggregatesOver(stats, prefix, rows) ==
    LET finite == SelectSeq(rows, LAMBDA r : r.duration # 0) IN
    <<prefix, "count">> \in DOMAIN stats =>
        /\ stats[<<prefix, "total_bandwidth">>].val = FSum(RawThroughputs(rows))
        /\ stats[<<prefix, "throughput_max">>].val = FMax(RawThroughputs(rows))
        /\ stats[<<prefix, "count">>].val = Len(finite)
        /\ stats[<<prefix, "unique_sources">>].val
              = Cardinality({finite[i].source_node_id : i \in 1..Len(finite)})

\* C20: the throughput of a record is its raw amount_sent divided by its raw
\* duration (5 for 5000 sent in 1000), and the records of duration 0 are
\* dropped before aggregation: the count, the distinct sources and the
\* throughput aggregates of flows and of connections are those of the records
\* with a finite throughput.
Cex_C20 ==
    (fnOut.done /\ fnOut.last.raised = NoError) =>
        /\ AggregatesOver(fnOut.last.stats, "flow_", fnIn.disk.flow.rows)
        /\ AggregatesOver(fnOut.last.stats, "connection_",
                          Surviving(fnIn, "conn"))

-----------------------------------------------------------------------------
(* calc_flow_stats applied to preprocessed flows, as test_calc_flow_stats *)
(* applies it                                                             *)

MaxFlows == 4

\* flow_data of test_bandwidth.py: four flows of duration 1000
TestFlows ==
    [i \in 1..4 |->
        [source_node_id |-> i, dest_node_id |-> i + 4, duration |-> 1000,
         amount_sent |-> 5000 * i, average_bandwidth |-> 5 * i]]

\* the frames of at most MaxFlows of these flows, in the order of the file
FlowFrames ==
    {[i \in 1..Len(s) |-> TestFlows[s[i]]] :
        s \in {t \in UNION {[1..n -> 1..Len(TestFlows)] : n \in 0..MaxFlows} :
                  \A i \in 1..(Len(t) - 1) : t[i] <= t[i + 1]}}

InitFlowStats ==
    /\ LifecycleInit
    /\ cwd = PROJECT_ROOT
    /\ fnIn \in FlowFrames
    /\ fnOut = Pending

\* preprocess_data(df_flow, pd.DataFrame(), pd.DataFrame()), calc_flow_stats
ApplyFlowStats ==
    /\ ~fnOut.done
    /\ fnOut' =
         [done |-> TRUE,
          val |-> calc_flow_stats(
                      preprocess_data([flow |-> fnIn, conn |-> <<>>,
                                       link |-> <<>>], TRUE, FALSE).flow)]
    /\ UNCHANGED <<lifecycleVars, cwd, fnIn, analysed>>

SpecFlowStats == InitFlowStats /\ [][ApplyFlowStats]_vars

\* 1e-6
Micro == Frac(1, 1000000)

-----------------------------------------------------------------------------
(* bandwidth_results.statistics against the report *)

\* the section a report key belongs to by its category
SectionOf(key) ==
    CASE key[1] = "flow_" -> "Flow Statistics"
      [] key[1] \in {"connection_", "conn_"} -> "Connection Statistics"
      [] key[1] = "link_" -> "Link Statistics"
      [] key[1] = "verif_" -> "Verification Results"

\* the places (section, line) of the file where a key is written
PlacesOf(text, key) ==
    {p \in {<<s, l>> : s \in 1..Len(text), l \in 1..Len(KeyOrder)} :
        /\ p[2] <= Len(text[p[1]].lines)
        /\ text[p[1]].lines[p[2]].key = key}

\* the position of a key in the sorted order of the keys
KeyRank(key) == CHOOSE i \in 1..Len(KeyOrder) : KeyOrder[i] = key

\* C23: every key of the report returned by analyze_run is written exactly
\* once to bandwidth_results.statistics, under the section of its category
\* (flow_ under Flow Statistics, connection_ under Connection Statistics,
\* link_ under Link Statistics, verif_ under Verification Results), the lines
\* of each section are sorted by key, and no report key is missing.
Cex_C23 ==
    (fnOut.done /\ fnOut.last.raised = NoError) =>
        LET text == fnIn.disk.statistics.rows
            stats == fnOut.last.stats
        IN  /\ \A key \in DOMAIN stats :
                  /\ Cardinality(PlacesOf(text, key)) = 1
                  /\ \A p \in PlacesOf(text, key) :
                        text[p[1]].title = SectionOf(key)
            /\ \A s \in 1..Len(text) :
                  \A i, j \in 1..Len(text[s].lines) :
                     i < j => KeyRank(text[s].lines[i].key)
                                 < KeyRank(text[s].lines[j].key)

\* the part of C23 the code keeps: the keys under flow_, conn_, link_ and
\* verif_ are written once, under their section, in sorted order, and
\* nothing else is written
Written_C23 ==
    (fnOut.done /\ fnOut.last.raised = NoError) =>
        LET text == fnIn.disk.statistics.rows
            stats == fnOut.last.stats
        IN  /\ \A key \in DOMAIN stats :
                  IF key[1] = "connection_"
                  THEN PlacesOf(text, key) = {}
                  ELSE /\ Cardinality(PlacesOf(text, key)) = 1
                       /\ \A p \in PlacesOf(text, key) :
                             text[p[1]].title = SectionOf(key)
            /\ \A s \in 1..Len(text) :
                  /\ \A i \in 1..Len(text[s].lines) :
                        text[s].lines[i].key \in DOMAIN stats
                  /\ \A i, j \in 1..Len(text[s].lines) :
                        i < j => KeyRank(text[s].lines[i].key)
                                    < KeyRank(text[s].lines[j].key)


-----------------------------------------------------------------------------
(* compare_routing_strategies, analysis_bandwidth.py: the returned map and  *)
(* the table of routing_comparison.txt                                      *)

MaxStrategies == 2

StrategyNames == {"ecmp", "mcvlc"}

\* the key metrics of the table
Metrics ==
    << <<"flow_", "total_bandwidth">>,
       <<"flow_", "throughput_mean">>,
       <<"flow_", "throughput_max">>,
       <<"link_", "utilization_mean">> >>

NotAvailable == [type |-> "N/A", val |-> 0]

\* f"{value:<15.3f}": rounded to three places, halves upwards
format_metric(v) ==
    IF IsFinite(v.val)
    THEN [type |-> "fixed3",
          val |-> Floor(FAdd(FMul(v.val, Num(1000)), Frac(1, 2)))]
    ELSE [type |-> "nan", val |-> 0]

\* the loop over the strategies: a strategy gets an entry when its path
\* exists and analyze_run on it returns; an exception of analyze_run is
\* logged and the strategy skipped
strategy_results(folder, strategies) ==
    LET listed == {strategies[i] : i \in 1..Len(strategies)}
        run(s) == analyze_run(folder[s].disk, TRUE, FALSE)
    IN  [s \in {t \in listed : folder[t].exists /\ run(t).raised = NoError}
            |-> run(s).stats]

\* the table: one row per metric, one cell per listed strategy
comparison_table(results, strategies) ==
    [m \in 1..Len(Metrics) |->
        [metric |-> Metrics[m],
         cells |-> [i \in 1..Len(strategies) |->
                      IF /\ strategies[i] \in DOMAIN results
                         /\ Metrics[m] \in DOMAIN results[strategies[i]]
                      THEN format_metric(results[strategies[i]][Metrics[m]])
                      ELSE NotAvailable]]]

\* the paths experiment_folder/strategy/logs_floodns: nothing there, a
\* regular file (it exists and every open below it fails), or a directory
NoDir ==
    [exists |-> FALSE, flow |-> Absent, conn |-> Absent, link |-> Absent,
     statistics |-> Absent]

StrategyDirs ==
    { [exists |-> TRUE, flow |-> Absent, conn |-> Absent, link |-> Absent,
       statistics |-> Absent],
      [exists |-> TRUE, flow |-> File(<<FlowRows[1], FlowRows[2]>>),
       conn |-> File(<<ConnRows[1], ConnRows[2]>>),
       link |-> File(<<LinkRows[1], LinkRows[4]>>), statistics |-> Absent],
      [exists |-> TRUE, flow |-> File(<<FlowRows[2]>>), conn |-> Absent,
       link |-> File(<<LinkRows[2]>>), statistics |-> Absent] }

StrategyPaths ==
    {[exists |-> FALSE, disk |-> NoDir], [exists |-> TRUE, disk |-> NoDir]}
    \cup [exists : {TRUE}, disk : StrategyDirs]

InitCompare ==
    /\ LifecycleInit
    /\ cwd = PROJECT_ROOT
    /\ fnIn \in [folder : [StrategyNames -> StrategyPaths],
                 strategies : UNION {[1..n -> StrategyNames] :
                                        n \in 1..MaxStrategies}]
    /\ fnOut = Pending

ApplyCompare ==
    /\ ~fnOut.done
    /\ \E results \in {strategy_results(fnIn.folder, fnIn.strategies)} :
          fnOut' = [done |-> TRUE, raised |-> NoError, results |-> results,
                    table |-> comparison_table(results, fnIn.strategies)]
    /\ UNCHANGED <<lifecycleVars, cwd, fnIn, analysed>>

SpecCompare == InitCompare /\ [][ApplyCompare]_vars

\* the strategies of the list whose path exists and whose analysis returns
Analysable(folder, strategies) ==
    {s \in {strategies[i] : i \in 1..Len(strategies)} :
        folder[s].exists /\ folder[s].disk.exists}

\* the cell of a strategy for a metric: its value, or N/A
CellOf(results, s, metric) ==
    IF s \in DOMAIN results /\ metric \in DOMAIN results[s]
    THEN format_metric(results[s][metric])
    ELSE NotAvailable

\* C24: compare_routing_strategies does not fail when the directory of a
\* strategy is absent or its analysis raises; the returned map has an entry
\* exactly for the listed strategies whose directory exists and whose
\* analysis succeeded; the written table has, for every listed strategy and
\* each of the five metrics flow_total_bandwidth, flow_throughput_mean,
\* flow_throughput_max, link_utilization_mean and
\* connection_completion_rate, that strategy's value or N/A.
Cex_C24 ==
    fnOut.done =>
        /\ fnOut.raised = NoError
        /\ DOMAIN fnOut.results = Analysable(fnIn.folder, fnIn.strategies)
        /\ \A metric \in {Metrics[m] : m \in 1..Len(Metrics)}
                            \cup {<<"connection_", "completion_rate">>} :
              \E r \in 1..Len(fnOut.table) :
                 /\ fnOut.table[r].metric = metric
                 /\ \A i \in 1..Len(fnIn.strategies) :
                       fnOut.table[r].cells[i]
                          = CellOf(fnOut.results, fnIn.strategies[i], metric)

\* the part of C24 the code keeps: the map, and the cells of the four
\* metrics of the table
Kept_C24 ==
    fnOut.done =>
        /\ fnOut.raised = NoError
        /\ DOMAIN fnOut.results = Analysable(fnIn.folder, fnIn.strategies)
        /\ \A s \in DOMAIN fnOut.results :
              fnOut.results[s]
                 = analyze_run(fnIn.folder[s].disk, TRUE, FALSE).stats
        /\ Len(fnOut.table) = 4
        /\ \A r \in 1..Len(fnOut.table) :
              /\ fnOut.table[r].metric # <<"connection_", "completion_rate">>
              /\ \A i \in 1..Len(fnIn.strategies) :
                    fnOut.table[r].cells[i]
                       = CellOf(fnOut.results, fnIn.strategies[i],
                                fnOut.table[r].metric)


-----------------------------------------------------------------------------
(* The job-level comparison, routing_strategy_comparison.py *)

MaxEpochs == 2

NumJobs == 2

KeyError == "KeyError"

NotSubscriptable == "TypeError"

\* the strategies of the dictionaries dfs and conns, in their order
ComparedStrategies ==
    {"ecmp", "mcvlc", "edge_coloring", "simulated_annealing", "ilp_solver"}

\* the (job_id, epoch) pairs, in ascending order
PairSeq ==
    [k \in 1..(NumJobs * MaxEpochs) |->
        <<((k - 1) \div MaxEpochs) + 1, ((k - 1) % MaxEpochs) + 1>>]

Pairs == {PairSeq[k] : k \in 1..Len(PairSeq)}

\* a CSV file of a strategy: absent, or the pairs it has rows for
NoCsv == [present |-> FALSE, pairs |-> {}]

CsvFiles == {NoCsv} \cup [present : {TRUE}, pairs : SUBSET Pairs]

\* the longest duration, in nanoseconds, among the connections of a strategy
\* for a pair: a value that tells the strategies and the pairs apart
StrategyIndex(s) == CHOOSE i \in 1..Len(RoutingOrder) : RoutingOrder[i] = s

max_duration(s, pair) ==
    (16 * StrategyIndex(s) + 4 * pair[1] + pair[2]) * 10000000 + 4000000

\* get_metric(df, "Duration"): round(df["duration"].max() / 1e9, 2), in
\* hundredths of a second
get_metric(s, pair) == (max_duration(s, pair) + 5000000) \div 10000000

\* load_job_info, load_connection_info: None when the file does not exist
load_job_info(file) == file

load_connection_info(file) == file

\* filter_jobs(dfs): the pairs for which every compared strategy has data
filter_jobs(dfs) ==
    {p \in Pairs : \A s \in ComparedStrategies :
                      dfs[s].present /\ p \in dfs[s].pairs}

\* one line of connection_comparison.txt
Row(pair, strategies) ==
    [job_id |-> pair[1], epoch |-> pair[2],
     values |-> [s \in strategies |-> get_metric(s, pair)]]

\* write_connection_metric: a line per pair of jobs; a strategy without a
\* group for the pair is absent from metrics[job_id][epoch] and its lookup
\* raises KeyError after the lines before it were written
write_connection_metric(jobs, conn_ids) ==
    LET selected == SelectSeq(PairSeq, LAMBDA p : p \in jobs)
        complete(p) == \A s \in ComparedStrategies : p \in conn_ids[s]
        failing == {i \in 1..Len(selected) : ~complete(selected[i])}
        written == IF failing = {} THEN Len(selected)
                   ELSE (CHOOSE i \in failing : \A j \in failing : i <= j) - 1
    IN  [raised |-> IF failing = {} THEN NoError ELSE KeyError,
         rows |-> [i \in 1..written |-> Row(selected[i], ComparedStrategies)]]

\* log_connection_info: the five connection files are loaded and grouped
\* before anything is written; dfs[s][...] of a file that does not exist
\* raises TypeError
log_connection_info(files, jobs) ==
    LET dfs == [s \in ComparedStrategies |-> load_connection_info(files[s])]
        job_ids == {p[1] : p \in jobs}
        conns == [s \in ComparedStrategies |->
                    {p \in dfs[s].pairs : p[1] \in job_ids}]
    IN  IF \E s \in ComparedStrategies : ~dfs[s].present
        THEN [raised |-> NotSubscriptable, rows |-> <<>>]
        ELSE IF \E s \in {"ecmp", "mcvlc", "edge_coloring"} : conns[s] = {}
        THEN [raised |-> NoError, rows |-> <<>>]
        ELSE write_connection_metric(jobs, conns)

\* compare_routing_strategies_helper(experiment_folder): nothing is compared
\* when ecmp, mcvlc or edge_coloring has no job_info.csv
compare_routing_strategies_helper(folder) ==
    LET dfs == [s \in ComparedStrategies |-> load_job_info(folder[s].job_info)]
    IN  IF \E s \in {"ecmp", "mcvlc", "edge_coloring"} : ~dfs[s].present
        THEN [raised |-> NoError, rows |-> <<>>]
        ELSE log_connection_info(
                 [s \in ComparedStrategies |-> folder[s].connection_info],
                 filter_jobs(dfs))

\* the output of a strategy that ran every job through every epoch
FullOutput ==
    [job_info |-> [present |-> TRUE, pairs |-> Pairs],
     connection_info |-> [present |-> TRUE, pairs |-> Pairs]]

\* experiment folders: every strategy ran in full except one, whose two
\* files are drawn
InitJobs ==
    /\ LifecycleInit
    /\ cwd = PROJECT_ROOT
    /\ \E odd \in ComparedStrategies :
       \E out \in [job_info : CsvFiles, connection_info : CsvFiles] :
          fnIn = [s \in ComparedStrategies |->
                     IF s = odd THEN out ELSE FullOutput]
    /\ fnOut = Pending

ApplyJobs ==
    /\ ~fnOut.done
    /\ \E r \in {compare_routing_strategies_helper(fnIn)} :
          fnOut' = [done |-> TRUE, raised |-> r.raised, rows |-> r.rows]
    /\ UNCHANGED <<lifecycleVars, cwd, fnIn, analysed>>

SpecJobs == InitJobs /\ [][ApplyJobs]_vars

\* a strategy has data for a pair: rows of both of its files
HasData(folder, s, pair) ==
    /\ folder[s].job_info.present /\ pair \in folder[s].job_info.pairs
    /\ folder[s].connection_info.present
    /\ pair \in folder[s].connection_info.pairs

\* C25: the job-level comparison emits a row for a (job, epoch) pair only if
\* all five compared strategies have data for that pair, every value of a row
\* comes from that strategy's own data for that pair, and when some strategy
\* has no data for a pair or no output at all the comparison still completes
\* and omits the pair.
Cex_C25 ==
    fnOut.done =>
        /\ fnOut.raised = NoError
        /\ \A i \in 1..Len(fnOut.rows) :
              LET row == fnOut.rows[i]
                  pair == <<row.job_id, row.epoch>>
              IN  /\ \A s \in ComparedStrategies : HasData(fnIn, s, pair)
                  /\ DOMAIN row.values = ComparedStrategies
                  /\ \A s \in ComparedStrategies :
                        row.values[s] = get_metric(s, pair)

\* no output at all of simulated_annealing stops the comparison
Stops_C25 ==
    (/\ fnOut.done
     /\ fnIn["simulated_annealing"] = [job_info |-> NoCsv, connection_info |-> NoCsv])
        => fnOut.raised = NotSubscriptable

\* the part of C25 the code keeps: a row that was written is of a pair all
\* five strategies have data for and holds their own values
Rows_C25 ==
    fnOut.done =>
        /\ fnOut.raised \in {NoError, KeyError, NotSubscriptable}
        /\ \A i \in 1..Len(fnOut.rows) :
              LET row == fnOut.rows[i]
                  pair == <<row.job_id, row.epoch>>
              IN  /\ \A s \in ComparedStrategies : HasData(fnIn, s, pair)
                  /\ \A s \in ComparedStrategies :
                        row.values[s] = get_metric(s, pair)


-----------------------------------------------------------------------------
(* Properties of the files a launch writes *)

\* the directories in which a step created or changed config.properties
WrittenDirs ==
    {d \in DOMAIN artifacts' :
        d \notin DOMAIN artifacts \/ artifacts'[d] # artifacts[d]}

\* the directories of a record with params: the one run_simulation computes
\* and the one the launcher generates the artifacts in
OwnDirs(params) ==
    {run_dir(params[1], params[2], params[3], params[4], params[5], params[6]),
     LauncherDirOf([num_jobs |-> params[1], num_cores |-> params[2],
                    ring_size |-> params[3], routing |-> params[4],
                    seed |-> params[5], model |-> params[6]])}

\* C26: launching or re-launching the run of a record writes files only
\* under that record's own run_dir; config.properties, topology.properties
\* and schedule.csv in the run_dirs of other records, the sibling directories
\* of the other routing strategies included, are left unchanged.
Cex_C26 ==
    [][\A id \in DOMAIN records' :
          StepOf(LaunchKinds, id) =>
              \A d \in WrittenDirs :
                 \E own \in OwnDirs(records'[id].params) : startswith(d, own)
       ]_vars

\* the launch of a single job writes config.properties into the directory
\* of each of the five routing strategies
Siblings_C26 ==
    [][\A id \in DOMAIN records' :
          (/\ StepOf(LaunchKinds, id)
           /\ WrittenDirs # {}
           /\ records'[id].params[1] = "1") =>
              \A i \in 1..Len(RoutingOrder) :
                 \E own \in OwnDirs([records'[id].params
                                        EXCEPT ![4] = RoutingOrder[i]]) :
                    own \in DOMAIN artifacts'
       ]_vars

\* the launch of several jobs writes into its own directory only
Several_C26 ==
    [][\A id \in DOMAIN records' :
          (StepOf(LaunchKinds, id) /\ records'[id].params[1] # "1") =>
              \A d \in WrittenDirs :
                 \E own \in OwnDirs(records'[id].params) : startswith(d, own)
       ]_vars


-----------------------------------------------------------------------------
(* The status poll of routes/dashboard.py, step by step, next to the        *)
(* operations of another session                                            *)

\* experiments = list(find()): the poll of row id works on the document as
\* the page read it
read_experiment(id) ==
    /\ "pc" \notin DOMAIN fnIn
    /\ id \in DOMAIN records
    /\ records[id].state = "Running" /\ records[id].run_dir # NoneDir
    /\ fnIn' = [done |-> FALSE, pc |-> "read", id |-> id, doc |-> records[id]]
    /\ UNCHANGED lifecycleVars

\* is_finished = check_experiment_status(run_dir), on the run_dir read
check_status ==
    /\ "pc" \in DOMAIN fnIn /\ fnIn.pc = "read"
    /\ fnIn' = IF check_experiment_status(fnIn.doc.run_dir, sentinel, cwd)
               THEN [fnIn EXCEPT !.pc = "checked"]
               ELSE Pending
    /\ UNCHANGED lifecycleVars

\* update_experiment_status(exp_id): update_one filtered by the id alone
write_status ==
    /\ "pc" \in DOMAIN fnIn /\ fnIn.pc = "checked"
    /\ clock <= MaxClock
    /\ records' = IF fnIn.id \in DOMAIN records
                  THEN update_experiment_status(records, fnIn.id, clock)
                  ELSE records
    /\ clock' = clock + 1
    /\ lastOp' = Op("poll", fnIn.id, NoError, TRUE)
    /\ fnIn' = Pending
    /\ UNCHANGED <<nextId, dirs, sentinel, artifacts, launched>>

PollRead ==
    /\ \E id \in DOMAIN records : read_experiment(id)
    /\ UNCHANGED <<cwd, fnOut, analysed>>

PollCheck ==
    /\ check_status
    /\ UNCHANGED <<cwd, fnOut, analysed>>

PollWrite ==
    /\ write_status
    /\ UNCHANGED <<cwd, fnOut, analysed>>

\* the operations of the other session leave the poll where it is
NextPolls ==
    \/ Create
    \/ ReRun
    \/ Edit
    \/ Simulator
    \/ PollRead
    \/ PollCheck
    \/ PollWrite

SpecPolls == Init /\ [][NextPolls]_vars

\* the step is the write of a poll, and it changes the record
PollWrites ==
    /\ "pc" \in DOMAIN fnIn /\ fnIn.pc = "checked"
    /\ "pc" \notin DOMAIN fnIn'
    /\ records' # records

\* C27: a completion poll that read state Running writes Finished only if
\* the record is still in that same Running run when the write is applied;
\* it never overwrites a state Edited or Error, nor the Running state of a
\* re-run, that another caller wrote between the poll's read and its write.
Cex_C27 ==
    [][PollWrites =>
          /\ records[fnIn.id].state = "Running"
          /\ records[fnIn.id].start_time = fnIn.doc.start_time]_vars

\* the write of a poll over a state Edited
OverEdited_C27 ==
    [][PollWrites => records[fnIn.id].state # "Edited"]_vars

\* the write of a poll over the Running state of a re-run
OverReRun_C27 ==
    [][PollWrites =>
          ~(/\ records[fnIn.id].state = "Running"
            /\ records[fnIn.id].start_time # fnIn.doc.start_time)]_vars


-----------------------------------------------------------------------------
(* The two validations against each other *)

\* the tuple is over the declared domains of the parameters
Declared(a) ==
    /\ a.num_jobs \in Range(valid_num_jobs)
    /\ a.num_cores \in Range(valid_num_cores)
    /\ a.ring_size \in {"2", "4", "8", "different"}
    /\ a.routing \in Range(valid_routing_algorithms)
    /\ a.seed \in Range(valid_seeds)
    /\ a.model \in Range(valid_models) \cup {None}

\* C28: validate_simulation_params of routes/dashboard.py and of
\* routes/experiment_details.py return the same accept/reject verdict for
\* every tuple over the declared parameter domains, num_jobs = 1 with
\* ring_size "different" included.
Cex_C28 ==
    (fnOut.done /\ Declared(fnIn)) =>
        ((fnOut.dashboard = Valid) <=> (fnOut.details = Valid))

\* the verdicts differ exactly on a single job of ring_size "different" that
\* is valid otherwise, which only the dashboard accepts
Differ_C28 ==
    fnOut.done =>
        (((fnOut.dashboard = Valid) # (fnOut.details = Valid))
            <=> (/\ fnIn.num_jobs = 1 /\ fnIn.ring_size = "different"
                 /\ fnOut.dashboard = Valid))


-----------------------------------------------------------------------------
(* generate_configurations, generate_config.py; ring sizes are written as   *)
(* strings                                                                  *)

job_counts == <<1, 2, 3, 4, 5>>

core_failures == <<0, 1, 4, 8>>

ring_sizes(num_jobs) ==
    IF num_jobs \in {1, 2, 3} THEN <<"2", "8", "different">>
    ELSE <<"2", "4", "different">>

routing_algorithms == <<"ecmp", "simulated_annealing", "edge_coloring", "mcvlc">>

seeds == <<0, 42, 200, 404, 1234>>

models == <<"BLOOM", "GPT_3", "LLAMA2_70B">>

\* the values of the innermost loop: the models of a single job, and one
\* configuration without a model otherwise
models_of(num_jobs) == IF num_jobs = 1 THEN models ELSE <<None>>

\* the iterations of the nested loops over jobs, cores, routing, seed, ring
\* size and model, as the indices into the lists
Iterations ==
    {at \in [jobs : DOMAIN job_counts, cores : DOMAIN core_failures,
             routing : DOMAIN routing_algorithms, seed : DOMAIN seeds,
             ring : 1..3, model : 1..3] :
        /\ at.ring \in DOMAIN ring_sizes(job_counts[at.jobs])
        /\ at.model \in DOMAIN models_of(job_counts[at.jobs])}

\* the configuration appended by the iteration at
configuration(at) ==
    [num_jobs |-> job_counts[at.jobs],
     n_core_failures |-> core_failures[at.cores],
     ring_size |-> ring_sizes(job_counts[at.jobs])[at.ring],
     routing |-> routing_algorithms[at.routing],
     seed |-> seeds[at.seed],
     model |-> models_of(job_counts[at.jobs])[at.model]]

\* generate_configurations(): every iteration appends one configuration; the
\* number of times c is in the returned list
generate_configurations(c) ==
    Cardinality({at \in Iterations : configuration(at) = c})

\* the rules of the docstring
DocumentedRules(c) ==
    /\ c.num_jobs \in 1..5
    /\ c.n_core_failures \in {0, 1, 4, 8}
    /\ c.num_jobs \in {1, 2, 3} => c.ring_size \in {"2", "8", "different"}
    /\ c.num_jobs \in {4, 5} => c.ring_size \in {"2", "4", "different"}
    /\ c.routing \in {"ecmp", "ilp_solver", "simulated_annealing",
                      "edge_coloring", "mcvlc"}
    /\ c.seed \in {0, 42, 200, 404, 1234}
    /\ c.model \in (IF c.num_jobs = 1 THEN {"BLOOM", "GPT_3", "LLAMA2_70B"}
                    ELSE {None})

\* tuples to look up in the returned list, valid and not
Tuples ==
    [num_jobs : 1..5, n_core_failures : {0, 1, 4, 8},
     ring_size : {"2", "4", "8", "different"},
     routing : {"ecmp", "ilp_solver", "simulated_annealing", "edge_coloring",
                "mcvlc"},
     seed : {0, 42, 200, 404, 1234},
     model : {"BLOOM", "GPT_3", "LLAMA2_70B", None}]

InitGenerate ==
    /\ LifecycleInit
    /\ cwd = PROJECT_ROOT
    /\ fnIn \in Tuples
    /\ fnOut = Pending

Generate ==
    /\ ~fnOut.done
    /\ fnOut' = [done |-> TRUE, val |-> generate_configurations(fnIn)]
    /\ UNCHANGED <<lifecycleVars, cwd, fnIn, analysed>>

SpecGenerate == InitGenerate /\ [][Generate]_vars

\* C29: generate_configurations returns all valid configurations and only
\* those: every returned configuration satisfies the documented rules, every
\* tuple over jobs 1-5, the core failures, the ring sizes allowed for its job
\* count, the five routing algorithms, the five seeds and (for a single job)
\* the three models is returned, and none is returned twice.
Cex_C29 ==
    fnOut.done =>
        /\ fnOut.val > 0 => DocumentedRules(fnIn)
        /\ DocumentedRules(fnIn) => fnOut.val > 0
        /\ fnOut.val <= 1

\* the part of C29 the code keeps: what is returned is valid, nothing is
\* returned twice, and the valid tuples that are missing are those routed by
\* ilp_solver
Returned_C29 ==
    fnOut.done =>
        /\ fnOut.val > 0 => DocumentedRules(fnIn)
        /\ fnOut.val <= 1
        /\ (DocumentedRules(fnIn) /\ fnOut.val = 0)
              <=> (DocumentedRules(fnIn) /\ fnIn.routing = "ilp_solver")


-----------------------------------------------------------------------------
(* create_2_layer_topology, floodns/external/simulation/main.py: the        *)
(* content of topology.properties. A range a:b is the pair <<a, b>>; the    *)
(* edge range "a:b-c:d" joins every node of a..b to every node of c..d      *)

MaxTors == 64

\* build_2_layer_undirected_edges with blocks that end at server + radix
build_2_layer_undirected_edges_overlapping(num_tors, num_cores, num_hosts, radix) ==
    LET start_server == num_tors + num_cores
        blocks == (num_hosts + radix - 1) \div radix
    IN  [tor_core_edges |->
             [tors |-> <<0, num_tors - 1>>,
              cores |-> <<num_tors, num_tors + num_cores - 1>>],
         server_tor_edges |->
             [k \in 1..blocks |->
                 [servers |-> <<start_server + (k - 1) * radix,
                                start_server + (k - 1) * radix + radix>>,
                  tor |-> k - 1]]]

\* for server in range(start_server, end_server + 1, radix): one block of
\* radix servers per step, attached to the next tor
build_2_layer_undirected_edges(num_tors, num_cores, num_hosts, radix) ==
    LET start_server == num_tors + num_cores
        blocks == (num_hosts + radix - 1) \div radix
    IN  [tor_core_edges |->
             [tors |-> <<0, num_tors - 1>>,
              cores |-> <<num_tors, num_tors + num_cores - 1>>],
         server_tor_edges |->
             [k \in 1..blocks |->
                 [servers |-> <<start_server + (k - 1) * radix,
                                start_server + (k - 1) * radix + radix - 1>>,
                  tor |-> k - 1]]]

create_2_layer_topology(num_tors) ==
    LET radix == num_tors \div 2
        num_cores == radix
        num_hosts_under_tor == radix
        num_hosts == num_tors * num_hosts_under_tor
        num_switches == num_tors + num_cores
        num_nodes == num_switches + num_hosts
        num_edges == num_tors * (num_cores + num_hosts_under_tor)
    IN  [num_nodes |-> num_nodes,
         num_undirected_edges |-> num_edges,
         switches |-> <<0, num_switches - 1>>,
         switches_which_are_tors |-> <<0, num_tors - 1>>,
         cores |-> <<num_tors, num_switches - 1>>,
         servers |-> <<num_switches, num_switches + num_hosts - 1>>,
         undirected_edges |->
             build_2_layer_undirected_edges(num_tors, num_cores, num_hosts,
                                            radix)]

InitTopology ==
    /\ LifecycleInit
    /\ cwd = PROJECT_ROOT
    /\ fnIn \in 2..MaxTors
    /\ fnOut = Pending

ApplyTopology ==
    /\ ~fnOut.done
    /\ fnOut' = [done |-> TRUE, val |-> create_2_layer_topology(fnIn)]
    /\ UNCHANGED <<lifecycleVars, cwd, fnIn, analysed>>

SpecTopology == InitTopology /\ [][ApplyTopology]_vars

\* the nodes of a range
Nodes(range) == range[1]..range[2]

\* the edges an encoding stands for, each as the pair of its ends
TorCoreEdges(enc) ==
    Nodes(enc.tor_core_edges.tors) \X Nodes(enc.tor_core_edges.cores)

ServerTorEdges(enc) ==
    UNION {Nodes(enc.server_tor_edges[k].servers) \X {enc.server_tor_edges[k].tor} :
              k \in DOMAIN enc.server_tor_edges}

\* the number of edges the ranges of an encoding list, one by one
RECURSIVE ListedServerEdges(_, _)
ListedServerEdges(enc, k) ==
    IF k = 0 THEN 0
    ELSE Cardinality(Nodes(enc.server_tor_edges[k].servers))
            + ListedServerEdges(enc, k - 1)

\* C30: for every num_tors >= 2 the encoded topology connects every leaf
\* 0..num_tors-1 to every core, the server ids num_switches ..
\* num_switches + num_hosts - 1 fall into exactly num_tors disjoint blocks of
\* radix consecutive ids with block i attached to leaf i, the declared
\* num_undirected_edges is the number of encoded edges and num_nodes is
\* leaves + cores + hosts.
Thm_C30 ==
    fnOut.done =>
        LET t == fnOut.val
            enc == t.undirected_edges
            num_tors == fnIn
            radix == num_tors \div 2
            leaves == 0..(num_tors - 1)
            blocks == enc.server_tor_edges
        IN  /\ Nodes(t.switches_which_are_tors) = leaves
            /\ leaves \X Nodes(t.cores) \subseteq TorCoreEdges(enc)
            /\ Nodes(t.cores) # {}
            /\ Len(blocks) = num_tors
            /\ \A k \in 1..Len(blocks) :
                  /\ blocks[k].tor = k - 1
                  /\ Cardinality(Nodes(blocks[k].servers)) = radix
                  /\ Nodes(blocks[k].servers) \subseteq Nodes(t.servers)
            /\ \A j, k \in 1..Len(blocks) :
                  j # k => Nodes(blocks[j].servers)
                              \cap Nodes(blocks[k].servers) = {}
            /\ UNION {Nodes(blocks[k].servers) : k \in 1..Len(blocks)}
                  = Nodes(t.servers)
            /\ t.num_undirected_edges
                  = Cardinality(TorCoreEdges(enc) \cup ServerTorEdges(enc))
            /\ t.num_undirected_edges
                  = Cardinality(TorCoreEdges(enc))
                       + ListedServerEdges(enc, Len(blocks))
            /\ t.num_nodes
                  = num_tors + Cardinality(Nodes(t.cores))
                       + Cardinality(Nodes(t.servers))
            /\ Nodes(t.switches) = leaves \cup Nodes(t.cores)
            /\ Nodes(t.servers) \cap Nodes(t.switches) = {}

\* the topology of an odd number of leaves, 5: two cores, ten servers, and
\* twenty edges
Witness_C30 ==
    /\ fnOut.done
    /\ fnIn = 5
    /\ fnOut.val.num_nodes = 17
    /\ fnOut.val.num_undirected_edges = 20
    /\ fnOut.val.servers = <<7, 16>>
    /\ Len(fnOut.val.undirected_edges.server_tor_edges) = 5
    /\ fnOut.val.undirected_edges.server_tor_edges[5].servers = <<15, 16>>

====
